---------------------------- MODULE Spec2Model ----------------------------
(***************************************************************************)
(* A model of CrickCoder's live codebase synchronisation engine:           *)
(*   - the content fingerprint       (indexer_engine.py, watcher.py)       *)
(*   - the adaptive chunking policy  (indexer_engine.py)                   *)
(*   - UniversalCodeIndexer          (upsert_file, delete_file,            *)
(*                                    sync_project)                        *)
(*   - ProjectWatcher                (debounce, workers, ignore rules)     *)
(*   - CodebaseRegistry              (activation, eviction)                *)
(*                                                                         *)
(* File contents are run-length encoded: a content is a sequence of runs   *)
(* [c |-> character, n |-> repetitions]; "x" and "y" are ordinary text     *)
(* characters, "LF" is \n, "CR" is \r, "NUL" is the null byte.  The        *)
(* encoding lets a file of 30001 characters be a two-element sequence.     *)
(***************************************************************************)
EXTENDS Integers, Sequences, FiniteSets, Bags, TLC

VARIABLES
    disk,        \* the files of the project root: path -> raw content
    ignorefile,  \* the lines of <root>/.crick/.crickignore
    gitignore,   \* the paths the root's .gitignore matches
    db,          \* the project's LanceDB table: a bag of rows (chunks)
    table_exists, \* whether the table has been created in the database
    lastOp,      \* the engine operation that ran last, and on what
    h_in,        \* fingerprint harness: the content under test (LF form)
    h_pc,        \* fingerprint harness: position
    h_res,       \* fingerprint harness: the fingerprints computed so far
    now,         \* time.time(), in half seconds
    events,      \* filesystem events the observer has not delivered yet
    last_event_time, \* ProjectWatcher.last_event_time: path -> time
    w_rules,     \* ProjectWatcher.ignore_dirs and ignore_exts, as loaded
    workers,     \* the watcher's worker threads that have not finished
    log,         \* the events on_any_event handled, and what it did
    clock,       \* time.time() as the registry reads it, in quarter hours
    registry,    \* CodebaseRegistry: the root's context, _last_cleanup
    db_lock,     \* ProjectWatcher.db_lock of each context: its holder
    threads,     \* threads at work on the root's storage: workers, sync
    creg,        \* CodebaseRegistry over several roots: _active_contexts,
                 \* _last_cleanup, _lock
    calls,       \* the registry's coroutines that have not returned
    fs_roots,    \* the project roots that exist on disk
    reg_hist,    \* what the registry has done so far (history)
    unreadable,  \* the files on disk that open() fails on (locked, denied)
    upserting,   \* the upsert_file call between its delete and its insert
    seen,        \* what the last search saw of a path
    l_in,        \* token limit harness: model_id and custom_limit
    l_res,       \* token limit harness: what the function returned
    shared_embedder, \* embedder.py's _shared_embedder
    embedder_lock,   \* embedder.py's _embedder_lock: its holder
    e_threads,   \* the threads inside get_shared_embedder, and those back
    e_built,     \* how many embedding models have been constructed
    locks,       \* lock order harness: each lock's holder
    o_threads,   \* lock order harness: the threads and coroutines at work
    o_hist,      \* lock order harness: threads started, lock pairs nested
    s_ctx,       \* ShadowWorkspace: current_session_id and current_run_id
    s_shadow,    \* .crick/history/<session>/<run>: run -> path -> backup
    s_runs       \* the agent runs so far: whether they still run, and what
                 \* each file held before the run's first edit of it

engineVars == <<disk, ignorefile, gitignore, db, table_exists, lastOp>>
hashVars == <<h_in, h_pc, h_res>>
watchVars == <<now, events, last_event_time, w_rules, workers, log>>

lockVars == <<clock, registry, db_lock, threads>>

regVars == <<creg, calls, fs_roots, reg_hist>>

faultVars == <<unreadable, upserting, seen>>
limitVars == <<l_in, l_res>>
embVars == <<shared_embedder, embedder_lock, e_threads, e_built>>
orderVars == <<locks, o_threads, o_hist>>
shadowVars == <<s_ctx, s_shadow, s_runs>>
sideVars == <<faultVars, limitVars, embVars, orderVars, shadowVars>>

vars == <<engineVars, hashVars, watchVars, lockVars, regVars, sideVars>>

\* What the fingerprint harness never touches.
hashFrame == <<ignorefile, gitignore, db, table_exists, lastOp, watchVars,
               lockVars, regVars, sideVars>>
\* What the engine's operations never touch.
engineFrame == <<hashVars, watchVars, lockVars, regVars, sideVars>>
\* What the watcher never touches.
watchFrame == <<gitignore, table_exists, lastOp, hashVars, lockVars, regVars,
                sideVars>>
\* What the registry and the threads' locking never touch.
lockFrame == <<engineVars, hashVars, watchVars, regVars, sideVars>>
\* What the registry's coroutines never touch.
regFrame == <<engineVars, hashVars, watchVars, registry, db_lock, threads,
              sideVars>>

\* Python's None: a missing fingerprint, a missing context.
None == [none |-> TRUE]

\* No project is active and no thread runs.
LockIdle ==
    /\ clock = 0
    /\ registry = [ctx |-> None, last_cleanup |-> 0,
                   creating |-> FALSE, gens |-> 0]
    /\ db_lock = << >>
    /\ threads = {}
    /\ creg = [contexts |-> << >>, last_cleanup |-> 0, lock |-> 0, made |-> 0]
    /\ calls = {}
    /\ fs_roots = {}
    /\ reg_hist = [held |-> << >>, evicted |-> {}, errors |-> {},
                   started |-> {}, stopped |-> {}, down |-> FALSE,
                   issued |-> 0, stop_log |-> {}]

\* Every file can be read, no upsert_file is under way, nothing was searched.
FaultIdle == unreadable = {} /\ upserting = None /\ seen = None

\* get_token_limit_for_model has not been called.
LimitIdle == l_in = None /\ l_res = None

\* embedder.py has just been imported: no model, the lock free, no caller.
EmbIdle ==
    /\ shared_embedder = None
    /\ embedder_lock = 0
    /\ e_threads = {}
    /\ e_built = 0

\* No lock is held and no thread of the lock order harness runs.
OrderIdle ==
    /\ locks = << >>
    /\ o_threads = {}
    /\ o_hist = [started |-> 0, order |-> {}]

\* The ShadowWorkspace has no context and no run has begun.
ShadowIdle == s_ctx = None /\ s_shadow = << >> /\ s_runs = << >>

SideIdle == FaultIdle /\ LimitIdle /\ EmbIdle /\ OrderIdle /\ ShadowIdle

---------------------------------------------------------------------------
(* Contents *)

Run(c, n) == [c |-> c, n |-> n]

\* Adjacent runs of one character are one run; empty runs vanish.
RECURSIVE Canon(_)
Canon(s) ==
    IF s = <<>> THEN <<>>
    ELSE LET h == Head(s)
             t == Canon(Tail(s))
         IN  IF h.n = 0 THEN t
             ELSE IF t # <<>> /\ Head(t).c = h.c
                  THEN <<Run(h.c, h.n + Head(t).n)>> \o Tail(t)
                  ELSE <<h>> \o t

\* len(content)
RECURSIVE StrLen(_)
StrLen(s) == IF s = <<>> THEN 0 ELSE Head(s).n + StrLen(Tail(s))

\* content.replace("\r\n", "\n"): in a canonical content the pair occurs
\* exactly where a CR run meets an LF run, and takes the run's last CR.
ReplaceCRLF(s) ==
    Canon([i \in 1..Len(s) |->
              IF s[i].c = "CR" /\ i < Len(s) /\ s[i+1].c = "LF"
              THEN Run("CR", s[i].n - 1)
              ELSE s[i]])

\* content.replace("\r", "\n")
ReplaceCR(s) ==
    Canon([i \in 1..Len(s) |->
              IF s[i].c = "CR" THEN Run("LF", s[i].n) ELSE s[i]])

\* A plausible slip: only the bare-CR replacement, so CRLF becomes LF LF.
NormalizeOnlyCR(content) == ReplaceCR(content)

\* normalized = content.replace("\r\n", "\n").replace("\r", "\n")
NormalizeEol(content) == ReplaceCR(ReplaceCRLF(content))

\* open(path, "r", encoding="utf-8", errors="ignore").read(): Python's text
\* mode (newline=None) translates "\r\n" and a lone "\r" to "\n".
ReadText(raw) == ReplaceCR(ReplaceCRLF(raw))

\* hashlib.sha256(...).hexdigest(), idealised as collision free: the digest
\* of a string is a tag around that string.
Sha256(s) == [sha |-> s]

\* UniversalCodeIndexer._compute_content_hash.  Its callers pass the
\* string f.read() returned, so the `content is None` branch is never taken.
compute_content_hash(content) == Sha256(NormalizeEol(content))

\* get_file_hash's retries=5.
RETRIES == 5

\* get_file_hash with i attempts left.  open() raises FileNotFoundError for
\* a missing file and PermissionError for a locked one; both are OSErrors,
\* and `except (PermissionError, OSError)` is the first clause, so both sleep
\* and try again; when the attempts are used up the function returns None.
RECURSIVE HashAttempt(_, _)
HashAttempt(file_path, i) ==
    IF i = 0 THEN None
    ELSE IF file_path \notin DOMAIN disk \/ file_path \in unreadable
         THEN HashAttempt(file_path, i - 1)
         ELSE Sha256(NormalizeEol(ReadText(disk[file_path])))

\* A plausible slip: the watcher hashes the bytes of the file as they are.
get_file_hash_of_bytes(file_path) ==
    IF file_path \notin DOMAIN disk THEN None ELSE Sha256(disk[file_path])

\* get_file_hash: a missing file yields None after the retries.
get_file_hash(file_path) == HashAttempt(file_path, RETRIES)

\* The same content saved with CRLF line endings: every \n becomes \r\n.
RECURSIVE CrLfPairs(_)
CrLfPairs(n) ==
    IF n = 0 THEN <<>> ELSE <<Run("CR", 1), Run("LF", 1)>> \o CrLfPairs(n - 1)

RECURSIVE ToCRLF(_)
ToCRLF(s) ==
    IF s = <<>> THEN <<>>
    ELSE IF Head(s).c = "LF"
         THEN CrLfPairs(Head(s).n) \o ToCRLF(Tail(s))
         ELSE <<Head(s)>> \o ToCRLF(Tail(s))

---------------------------------------------------------------------------
(* Fingerprint harness: one content, its LF and CRLF forms, both hashers *)

MaxRuns == 3
MaxRep == 2
HashChars == {"x", "CR", "LF"}
HashPath == "a.py"

HashRuns == [c : HashChars, n : 1..MaxRep]

\* Canonical contents of at most MaxRuns runs in which no CR is directly
\* followed by an LF: the LF form of a text (a stray CR inside a line may
\* occur, a CRLF line ending may not).
IsLfForm(s) ==
    /\ \A i \in 1..(Len(s) - 1) : s[i].c # s[i+1].c
    /\ \A i \in 1..(Len(s) - 1) : ~(s[i].c = "CR" /\ s[i+1].c = "LF")

HashInputs ==
    {s \in UNION {[1..k -> HashRuns] : k \in 0..MaxRuns} : IsLfForm(s)}

HashInit ==
    /\ LockIdle
    /\ SideIdle
    /\ h_in \in HashInputs
    /\ h_pc = "start"
    /\ h_res = [e_lf |-> None, e_crlf |-> None, w_lf |-> None, w_crlf |-> None]
    /\ disk = << >>
    /\ ignorefile = {}
    /\ gitignore = {}
    /\ db = EmptyBag
    /\ table_exists = FALSE
    /\ lastOp = [op |-> "none"]
    /\ now = 0
    /\ events = <<>>
    /\ last_event_time = <<>>
    /\ w_rules = [dirs |-> {}, exts |-> {}]
    /\ workers = {}
    /\ log = <<>>

\* The engine hashes both forms of the content.
HashEngine ==
    /\ h_pc = "start"
    /\ h_res' = [h_res EXCEPT !.e_lf = compute_content_hash(h_in),
                              !.e_crlf = compute_content_hash(ToCRLF(h_in))]
    /\ h_pc' = "engine"
    /\ UNCHANGED <<disk, h_in, hashFrame>>

\* The file is saved with LF endings, then hashed by the watcher.
HashSaveLf ==
    /\ h_pc = "engine"
    /\ disk' = (HashPath :> h_in)
    /\ h_pc' = "lf_saved"
    /\ UNCHANGED <<h_in, h_res, hashFrame>>

HashWatcherLf ==
    /\ h_pc = "lf_saved"
    /\ h_res' = [h_res EXCEPT !.w_lf = get_file_hash(HashPath)]
    /\ h_pc' = "lf_hashed"
    /\ UNCHANGED <<disk, h_in, hashFrame>>

\* The same file is saved again with CRLF endings, then hashed.
HashSaveCrLf ==
    /\ h_pc = "lf_hashed"
    /\ disk' = (HashPath :> ToCRLF(h_in))
    /\ h_pc' = "crlf_saved"
    /\ UNCHANGED <<h_in, h_res, hashFrame>>

HashWatcherCrLf ==
    /\ h_pc = "crlf_saved"
    /\ h_res' = [h_res EXCEPT !.w_crlf = get_file_hash(HashPath)]
    /\ h_pc' = "done"
    /\ UNCHANGED <<disk, h_in, hashFrame>>

HashNext ==
    \/ HashEngine
    \/ HashSaveLf
    \/ HashWatcherLf
    \/ HashSaveCrLf
    \/ HashWatcherCrLf

SpecHash == HashInit /\ [][HashNext]_vars

\* C8: for every content the fingerprint of its CRLF form equals the
\* fingerprint of its LF form, for the engine's _compute_content_hash and for
\* the watcher's get_file_hash.
C8_HashEolStable ==
    /\ h_pc # "start" => h_res.e_crlf = h_res.e_lf
    /\ h_pc = "done" => h_res.w_crlf = h_res.w_lf

\* A content with a line ending has been hashed in both forms by both hashers.
C8_Witness ==
    /\ h_pc = "done"
    /\ \E i \in 1..Len(h_in) : h_in[i].c = "LF"
    /\ ToCRLF(h_in) # h_in
    /\ h_res.w_lf # None

---------------------------------------------------------------------------
(* Paths and ignore rules *)

\* A root-relative path: one directory ("" for the root itself), and a file
\* name made of a stem and an extension.
Path(d, st, e) == [dir |-> d, stem |-> st, ext |-> e]

PA == Path("", "a", ".py")           \* a source file, language-aware splitter
PN == Path("", "notes", ".txt")      \* a text file, fallback splitter
PG == Path("gen", "g", ".py")        \* a file in a directory a rule may exclude
PT == Path("", "a", ".tmp")          \* an editor's temporary file

\* The strings of the model that begin with a dot.
DotNames == {".git", ".crick", ".venv", ".idea", ".vscode", ".pytest_cache",
             ".mypy_cache", ".history"}

\* name.startswith("."): a file name begins with a dot when its stem is empty
\* (every extension begins with a dot) or its stem does.
StartsWithDot(name) == name \in DotNames
FileStartsWithDot(p) == p.stem = "" \/ StartsWithDot(p.stem)

\* A line of .crickignore after line.strip(), as the tokens the parser
\* looks at: "gen/" is <<"gen", "/">>, "*.log" is <<"*", ".log">>,
\* "notes.txt" is <<"notes", ".txt">>, ".venv" is <<".venv", "">>, "Makefile"
\* is <<"Makefile", "">>, a comment is <<"#", its text>> and a blank line is
\* <<"", "">>.
DirLine(d) == <<d, "/">>
ExtLine(e) == <<"*", e>>
NameLine(st, e) == <<st, e>>
WordLine(w) == <<w, "">>
CommentLine(text) == <<"#", text>>
BlankLine == <<"", "">>

\* `if not line or line.startswith('#'): continue`
IsRule(l) == l # BlankLine /\ l[1] # "#"

\* load_crickignore_rules.  Every rule line goes to the patterns.  A
\* trailing "/" names a directory; else a leading "*." names an extension;
\* else a line with a dot in it that does not begin with one adds the
\* extension after its last dot; else a line that begins with a dot is added
\* to the directories.
load_crickignore_rules(lines) ==
    LET rules == {l \in lines : IsRule(l)}
        dir_lines == {l \in rules : l[2] = "/"}
        ext_lines == {l \in rules \ dir_lines : l[1] = "*" /\ l[2] # ""}
        others == rules \ (dir_lines \cup ext_lines)
        name_lines == {l \in others : l[2] # "" /\ ~StartsWithDot(l[1])}
        dot_lines == {l \in others : StartsWithDot(l[1])}
    IN  [dirs |-> {l[1] : l \in dir_lines} \cup {l[1] : l \in dot_lines},
         exts |-> {l[2] : l \in ext_lines} \cup {l[2] : l \in name_lines},
         patterns |-> rules]

\* UniversalCodeIndexer._is_binary_file: a null byte in the first 1024 bytes;
\* a file that cannot be opened counts as binary.
BINARY_PROBE == 1024

RECURSIVE HasNulWithin(_, _)
HasNulWithin(raw, k) ==
    IF raw = <<>> \/ k <= 0 THEN FALSE
    ELSE Head(raw).c = "NUL" \/ HasNulWithin(Tail(raw), k - Head(raw).n)

is_binary_file(p) ==
    IF p \notin DOMAIN disk \/ p \in unreadable THEN TRUE
    ELSE HasNulWithin(disk[p], BINARY_PROBE)

\* The walk of _scan_disk_hashes reaches p and keeps it: its directory is
\* neither excluded by a rule nor hidden, its name does not begin with a dot,
\* its extension is not excluded, .gitignore does not match it, and it is not
\* binary.
ScanEligible(p) ==
    LET rules == load_crickignore_rules(ignorefile)
    IN  /\ p \in DOMAIN disk
        /\ p.dir # "" => (p.dir \notin rules.dirs /\ ~StartsWithDot(p.dir))
        /\ ~FileStartsWithDot(p)
        /\ p.ext \notin rules.exts
        /\ p \notin gitignore
        /\ ~is_binary_file(p)

\* UniversalCodeIndexer._scan_disk_hashes: path -> fingerprint
scan_disk_hashes ==
    [p \in {q \in DOMAIN disk : ScanEligible(q)} |->
        compute_content_hash(ReadText(disk[p]))]

---------------------------------------------------------------------------
(* Chunking *)

SMALL_FILE_THRESHOLD == 30000
LANG_CHUNK_SIZE == 30000
LANG_CHUNK_OVERLAP == 2000
FALLBACK_CHUNK_SIZE == 4000
FALLBACK_CHUNK_OVERLAP == 200

\* The extensions of LANG_MAP.
LANG_MAP == {".py", ".js", ".jsx", ".ts", ".tsx", ".java", ".go", ".rs",
             ".cpp", ".c", ".php", ".html", ".css"}

\* UniversalCodeIndexer._get_splitter
get_splitter(p) ==
    IF p.ext \in LANG_MAP
    THEN [chunk_size |-> LANG_CHUNK_SIZE, chunk_overlap |-> LANG_CHUNK_OVERLAP]
    ELSE [chunk_size |-> FALLBACK_CHUNK_SIZE,
          chunk_overlap |-> FALLBACK_CHUNK_OVERLAP]

IsSpace(c) == c \in {"LF", "CR", "SP"}

\* str.strip()
RECURSIVE LStrip(_)
LStrip(s) ==
    IF s # <<>> /\ IsSpace(Head(s).c) THEN LStrip(Tail(s)) ELSE s

RECURSIVE RStrip(_)
RStrip(s) ==
    IF s # <<>> /\ IsSpace(s[Len(s)].c)
    THEN RStrip(SubSeq(s, 1, Len(s) - 1))
    ELSE s

Strip(s) == RStrip(LStrip(s))

\* How many chunks RecursiveCharacterTextSplitter makes of n characters that
\* hold no separator: the first takes chunk_size characters, each further one
\* starts chunk_size - chunk_overlap characters after the one before.
NumChunks(n, sp) ==
    IF n <= sp.chunk_size THEN 1
    ELSE 1 + ((n - sp.chunk_size) + (sp.chunk_size - sp.chunk_overlap) - 1)
                 \div (sp.chunk_size - sp.chunk_overlap)

\* splitter.create_documents([content]) for the contents of the model: one run
\* of text, possibly followed by line ends.  The splitter cuts at the line end,
\* cuts the text run by characters when it does not fit one chunk, and strips
\* every chunk (strip_whitespace), which drops the chunk of line ends.
create_documents(sp, content) ==
    LET core == Strip(content)
        n == StrLen(core)
        step == sp.chunk_size - sp.chunk_overlap
        from(k) == (k - 1) * step
        upto(k) == IF from(k) + sp.chunk_size < n
                   THEN from(k) + sp.chunk_size ELSE n
    IN  IF core = <<>> THEN <<>>
        ELSE [k \in 1..NumChunks(n, sp) |->
                 <<Run(core[1].c, upto(k) - from(k))>>]

\* A plausible slip: the comparison with the threshold is the wrong way round.
ChunkDocsReversed(p, content) ==
    IF StrLen(content) > SMALL_FILE_THRESHOLD
    THEN <<content>>
    ELSE create_documents(get_splitter(p), content)

\* upsert_file, step 5: the whole content below the threshold, the splitter's
\* documents otherwise.
ChunkDocs(p, content) ==
    IF StrLen(content) < SMALL_FILE_THRESHOLD
    THEN <<content>>
    ELSE create_documents(get_splitter(p), content)

---------------------------------------------------------------------------
(* The storage backend and the engine's operations *)

\* UniversalCodeIndexer._format_repomix_style
format_repomix_style(p, content) ==
    [file |-> p, extension |-> p.ext, body |-> content]

\* One row of the table: the chunk id (name), its text and its metadata.
\* metadata.last_modified (time.time()) is written and never read by the
\* program; the model leaves it out.
Row(p, h, idx, total, text) ==
    [name |-> <<p, idx>>,
     text_content |-> format_repomix_style(p, text),
     path |-> p,
     hash |-> h,
     chunk_index |-> idx,
     total_chunks |-> total,
     is_whole_file |-> (total = 1)]

\* The rows stored for a path, with their multiplicities.
RowsOf(dbv, p) == [r \in {q \in DOMAIN dbv : q.path = p} |-> dbv[r]]

\* A plausible slip: the delete forgets its filter and empties the table.
delete_by_metadata_all(dbv, p) == EmptyBag

\* vector_db.delete_by_metadata({"path": rel_path})
delete_by_metadata(dbv, p) ==
    [r \in {q \in DOMAIN dbv : q.path # p} |-> dbv[r]]

\* knowledge.add_contents(contents) with upsert=True: a row whose name exists
\* is replaced.
add_contents(dbv, rows) ==
    [r \in {q \in DOMAIN dbv : \A n \in rows : n.name # q.name} |-> dbv[r]]
        (+) SetToBag(rows)

\* A plausible slip: the delete by path removes nothing.
DeleteDbNothing(dbv, p) == dbv

\* UniversalCodeIndexer.delete_file, as a function of the table
DeleteDb(dbv, p) == delete_by_metadata(dbv, p)

\* upsert_file, step 7: the payload, one row per document; chunk_index counts
\* from 0.
Payload(p, current_hash, docs) ==
    {Row(p, current_hash, k - 1, Len(docs), docs[k]) : k \in 1..Len(docs)}

\* A plausible slip: no preventive delete, and the rows are appended.
UpsertDbAppend(dbv, p) ==
    IF is_binary_file(p) THEN dbv
    ELSE LET content == ReadText(disk[p])
         IN  IF Strip(content) = <<>> THEN dbv
             ELSE dbv (+) SetToBag(Payload(p, compute_content_hash(content),
                                           ChunkDocs(p, content)))

\* UniversalCodeIndexer.upsert_file, as a function of the table
UpsertDb(dbv, p) ==
    IF is_binary_file(p) THEN dbv
    ELSE LET content == ReadText(disk[p])
         IN  IF Strip(content) = <<>> THEN dbv
             ELSE LET current_hash == compute_content_hash(content)
                      docs == ChunkDocs(p, content)
                      cleared == DeleteDb(dbv, p)
                  IN  IF docs = <<>> THEN cleared
                      ELSE add_contents(cleared,
                                        Payload(p, current_hash, docs))

\* UniversalCodeIndexer._get_db_state: path -> hash, from the rows whose
\* chunk_index is 0.  (Were two such rows stored for one path, the later one
\* read would win; the model reads either.)
get_db_state ==
    LET zero == {r \in DOMAIN db : r.chunk_index = 0}
    IN  [p \in {r.path : r \in zero} |->
            (CHOOSE r \in zero : r.path = p).hash]

RECURSIVE DeleteAll(_, _)
DeleteAll(dbv, ps) ==
    IF ps = {} THEN dbv
    ELSE LET p == CHOOSE q \in ps : TRUE
         IN  DeleteAll(DeleteDb(dbv, p), ps \ {p})

RECURSIVE UpsertAll(_, _)
UpsertAll(dbv, ps) ==
    IF ps = {} THEN dbv
    ELSE LET p == CHOOSE q \in ps : TRUE
         IN  UpsertAll(UpsertDb(dbv, p), ps \ {p})

\* knowledge.add_contents creates the table when it is not there: the table
\* exists once a row has been inserted.
Created(dbv) == table_exists \/ dbv # EmptyBag

\* sync_project, steps 2 and 3: what is queued
ToUpsert ==
    LET disk_files == scan_disk_hashes
        db_state == get_db_state
    IN  {p \in DOMAIN disk_files :
            p \notin DOMAIN db_state \/ db_state[p] # disk_files[p]}

ToDelete ==
    {p \in DOMAIN get_db_state : p \notin DOMAIN scan_disk_hashes}

\* UniversalCodeIndexer.sync_project: every queued delete, then every queued
\* upsert, then create_hybrid_indexes; nothing at all when both queues are
\* empty.  lastOp records whether the indexes were rebuilt
\* (create_hybrid_indexes returns at once when there is no table), and
\* whether the pass is the first or a later one of passes that follow one
\* another.
sync_project ==
    /\ IF ToUpsert = {} /\ ToDelete = {}
       THEN /\ db' = db
            /\ lastOp' = [op |-> "sync", rebuilt |-> FALSE,
                          run |-> IF lastOp.op = "sync" THEN 2 ELSE 1]
       ELSE /\ db' = UpsertAll(DeleteAll(db, ToDelete), ToUpsert)
            /\ lastOp' = [op |-> "sync", rebuilt |-> Created(db'),
                          run |-> IF lastOp.op = "sync" THEN 2 ELSE 1]
    /\ table_exists' = Created(db')
    /\ UNCHANGED <<disk, ignorefile, gitignore>>
    /\ UNCHANGED engineFrame

\* UniversalCodeIndexer.upsert_file
upsert_file(p) ==
    /\ db' = UpsertDb(db, p)
    /\ table_exists' = Created(db')
    /\ lastOp' = [op |-> "upsert", path |-> p,
                  run |-> IF lastOp.op = "upsert" /\ lastOp.path = p
                          THEN 2 ELSE 1]
    /\ UNCHANGED <<disk, ignorefile, gitignore>>
    /\ UNCHANGED engineFrame

\* What vector_db.delete_by_metadata does: on a table it deletes and returns;
\* with no table yet it returns False or raises "Table not initialized",
\* as the library's version has it.
BackendDelete ==
    IF table_exists THEN {"done"} ELSE {"false", "table_not_initialized"}

\* A plausible slip: delete_file without its try/except.
DeleteRaisesUncaught(outcome) == outcome = "table_not_initialized"

\* Whether delete_file raises: its except clause catches every Exception
\* (lines 190 to 192).
DeleteRaises(outcome) == FALSE

\* UniversalCodeIndexer.delete_file
delete_file(p) ==
    /\ \E outcome \in BackendDelete :
         /\ db' = IF outcome = "done" THEN DeleteDb(db, p) ELSE db
         /\ lastOp' = [op |-> "delete", path |-> p, outcome |-> outcome,
                       raised |-> DeleteRaises(outcome),
                       had |-> RowsOf(db, p) # EmptyBag]
    /\ UNCHANGED <<disk, ignorefile, gitignore, table_exists>>
    /\ UNCHANGED engineFrame

---------------------------------------------------------------------------
(* The engine on its own: files change on disk, the engine's three         *)
(* operations run one at a time.                                           *)

EnginePaths == {PA, PN, PG}

\* The contents a file is given.  Lengths sit on both sides of
\* SMALL_FILE_THRESHOLD; one content is only white space, one is binary, one
\* has CRLF line endings, and two differ in their text alone.
C_ws == <<Run("LF", 1)>>
C_small == <<Run("x", 500)>>
C_other == <<Run("y", 500), Run("CR", 1), Run("LF", 1)>>
C_below == <<Run("x", SMALL_FILE_THRESHOLD - 1)>>
C_above == <<Run("x", SMALL_FILE_THRESHOLD + 1)>>
C_above_nl == <<Run("x", SMALL_FILE_THRESHOLD), Run("LF", 1)>>
C_big == <<Run("x", 62000)>>
C_bin == <<Run("NUL", 1), Run("x", 10)>>

EngineContents ==
    {C_ws, C_small, C_other, C_below, C_above, C_above_nl, C_big, C_bin}

\* What is written where: every content to a.py, fewer to the other paths.
WritableTo(p) ==
    IF p = PA THEN EngineContents
    ELSE IF p = PN THEN {C_small, C_above_nl}
    ELSE {C_small}

IgnoreFiles == {{}, {DirLine("gen")}}

EngineInit ==
    /\ LockIdle
    /\ SideIdle
    /\ disk = << >>
    /\ ignorefile \in IgnoreFiles
    /\ gitignore = {}
    /\ db = EmptyBag
    /\ table_exists = FALSE
    /\ lastOp = [op |-> "none"]
    /\ h_in = <<>>
    /\ h_pc = "off"
    /\ h_res = None
    /\ now = 0
    /\ events = <<>>
    /\ last_event_time = <<>>
    /\ w_rules = [dirs |-> {}, exts |-> {}]
    /\ workers = {}
    /\ log = <<>>

\* A file is created or overwritten on disk.
WriteFile(p, c) ==
    /\ disk' = [q \in DOMAIN disk \cup {p} |-> IF q = p THEN c ELSE disk[q]]
    /\ lastOp' = [op |-> "write", path |-> p]
    /\ UNCHANGED <<ignorefile, gitignore, db, table_exists>>
    /\ UNCHANGED engineFrame

\* A file is removed from disk.
RemoveFile(p) ==
    /\ p \in DOMAIN disk
    /\ disk' = [q \in DOMAIN disk \ {p} |-> disk[q]]
    /\ lastOp' = [op |-> "remove", path |-> p]
    /\ UNCHANGED <<ignorefile, gitignore, db, table_exists>>
    /\ UNCHANGED engineFrame

\* .crickignore is rewritten.
EditIgnore(lines) ==
    /\ lines # ignorefile
    /\ ignorefile' = lines
    /\ lastOp' = [op |-> "rules"]
    /\ UNCHANGED <<disk, gitignore, db, table_exists>>
    /\ UNCHANGED engineFrame

EngineNext ==
    \/ \E p \in EnginePaths : \E c \in WritableTo(p) : WriteFile(p, c)
    \/ \E p \in EnginePaths : RemoveFile(p)
    \/ \E lines \in IgnoreFiles : EditIgnore(lines)
    \/ \E p \in EnginePaths : upsert_file(p)
    \/ \E p \in EnginePaths : delete_file(p)
    \/ sync_project

Spec == EngineInit /\ [][EngineNext]_vars

\* C1: when sync_project has returned, the stored fingerprint map equals the
\* on-disk fingerprint map of the eligible files.
C1_SyncConverges ==
    lastOp.op = "sync" => get_db_state = scan_disk_hashes

\* C5: upsert_file(p) called again right after upsert_file(p), the file
\* unchanged, leaves the rows of p as the first call left them: as many
\* chunks, the same text per chunk index, the same hash.
C5_UpsertIdempotent ==
    [][(/\ lastOp.op = "upsert"
        /\ lastOp'.op = "upsert"
        /\ lastOp'.path = lastOp.path
        /\ lastOp'.run = 2)
       => RowsOf(db', lastOp.path) = RowsOf(db, lastOp.path)]_vars

\* The second of two upserts in a row has run on a file that is indexed in
\* more than one chunk.
C5_Witness ==
    /\ lastOp.op = "upsert"
    /\ lastOp.run = 2
    /\ Cardinality(DOMAIN RowsOf(db, lastOp.path)) > 1

\* The rows of p are one live set: no row twice, chunk_index exactly
\* 0..n-1 for the n rows stored, total_chunks = n in every row, one hash, and
\* is_whole_file exactly when n = 1.
OneLiveSet(p) ==
    LET rs == RowsOf(db, p)
        n == Cardinality(DOMAIN rs)
    IN  /\ \A r \in DOMAIN rs : rs[r] = 1
        /\ \A r1, r2 \in DOMAIN rs : r1.chunk_index = r2.chunk_index => r1 = r2
        /\ {r.chunk_index : r \in DOMAIN rs} = 0..(n - 1)
        /\ \A r \in DOMAIN rs : r.total_chunks = n
        /\ \A r1, r2 \in DOMAIN rs : r1.hash = r2.hash
        /\ \A r \in DOMAIN rs : r.is_whole_file <=> (n = 1)

\* C6: after any sequence of upsert_file and delete_file calls (and of
\* sync_project passes) the rows stored for each path form at most one live
\* set.
C6_OneLiveSetPerPath == \A p \in EnginePaths : OneLiveSet(p)

\* upsert_file has just indexed a file of SMALL_FILE_THRESHOLD + 1 characters:
\* its rows are two chunks.
C6_Witness ==
    /\ lastOp.op = "upsert"
    /\ lastOp.run = 1
    /\ lastOp.path \in DOMAIN disk
    /\ disk[lastOp.path] = C_above
    /\ Cardinality(DOMAIN RowsOf(db, lastOp.path)) = 2

\* The file upsert_file(p) has just indexed, as upsert_file read it.
Indexed(p) == ReadText(disk[p])

JustUpserted(p) ==
    /\ lastOp.op = "upsert"
    /\ lastOp.path = p
    /\ ~is_binary_file(p)

SameFingerprint(p) ==
    \A r \in DOMAIN RowsOf(db, p) : r.hash = compute_content_hash(Indexed(p))

---------------------------------------------------------------------------
(* ProjectWatcher *)

\* The cool-down of on_any_event, 1.0 second, in half seconds.
COOL_DOWN == 2

\* <root>/.crick/.crickignore
PI == Path(".crick", "", ".crickignore")

\* _reload_ignore_rules: security_ignores
security_ignores ==
    {".git", ".crick", ".idea", ".vscode", "__pycache__", "node_modules",
     "venv", ".venv", "env", "dist", "build", ".pytest_cache", ".mypy_cache",
     "lancedb_data", "target", "bin", "obj", ".history"}

\* ProjectWatcher._reload_ignore_rules
reload_ignore_rules ==
    LET r == load_crickignore_rules(ignorefile)
    IN  [dirs |-> security_ignores \cup r.dirs, exts |-> r.exts]

\* _should_ignore, step 1: the extensions of temporary and lock files (the
\* model has no name ending in "~" or beginning with ".#").
TempExts == {".tmp", ".lock"}

IsIgnoreFileName(p) == p.stem = "" /\ p.ext = ".crickignore"

\* ProjectWatcher._should_ignore: its result under the rules loaded
should_ignore(p, rules) ==
    \/ p.ext \in TempExts
    \/ IsIgnoreFileName(p)
    \/ p.dir # "" /\ (StartsWithDot(p.dir) \/ p.dir \in rules.dirs)
    \/ p.ext \in rules.exts
    \/ FileStartsWithDot(p)

\* ProjectWatcher._should_ignore: its effect, the rules are loaded again when
\* the file is .crickignore
RulesAfter(p, rules) ==
    IF p.ext \notin TempExts /\ IsIgnoreFileName(p)
    THEN reload_ignore_rules
    ELSE rules

Event(type, src, dest) == [type |-> type, src |-> src, dest |-> dest]

\* The thread on_any_event starts for an event.
NewWorker(ev, id) ==
    [id |-> id,
     kind |-> IF ev.type = "moved" THEN "move"
              ELSE IF ev.type = "deleted" THEN "delete" ELSE "upsert",
     src |-> ev.src, dest |-> ev.dest, pc |-> "start",
     ignore_src |-> FALSE, ignore_dest |-> FALSE]

\* last_event_time.get(event.src_path, 0)
LastTime(p) == IF p \in DOMAIN last_event_time THEN last_event_time[p] ELSE 0

\* A plausible slip: no cool-down, every event that is not ignored is
\* dispatched.
DebouncedNever(p) == FALSE

\* on_any_event: (current_time - last_time) < 1.0
Debounced(p) == (now - LastTime(p)) < COOL_DOWN

\* A plausible slip: a dropped event moves the last time too, so the
\* cool-down starts again with every event.
on_any_event_refreshing ==
    /\ events # <<>>
    /\ LET ev == Head(events)
           outcome == IF should_ignore(ev.src, w_rules) THEN "ignored"
                      ELSE IF Debounced(ev.src) THEN "dropped"
                      ELSE "dispatched"
       IN  /\ events' = Tail(events)
           /\ w_rules' = RulesAfter(ev.src, w_rules)
           /\ last_event_time' =
                 IF outcome \in {"dispatched", "dropped"}
                 THEN [q \in DOMAIN last_event_time \cup {ev.src} |->
                          IF q = ev.src THEN now ELSE last_event_time[q]]
                 ELSE last_event_time
           /\ workers' = IF outcome = "dispatched"
                         THEN workers \cup {NewWorker(ev, Len(log) + 1)}
                         ELSE workers
           /\ log' = Append(log, [type |-> ev.type, src |-> ev.src,
                                  dest |-> ev.dest, t |-> now,
                                  outcome |-> outcome])
    /\ UNCHANGED <<disk, ignorefile, db, now>>
    /\ UNCHANGED watchFrame

\* A plausible slip: the handler does its work inside db_lock, so it waits
\* while a worker holds it.
on_any_event_under_db_lock ==
    /\ events # <<>>
    /\ db_lock.holder = 0
    /\ LET ev == Head(events)
           outcome == IF should_ignore(ev.src, w_rules) THEN "ignored"
                      ELSE IF Debounced(ev.src) THEN "dropped"
                      ELSE "dispatched"
       IN  /\ events' = Tail(events)
           /\ w_rules' = RulesAfter(ev.src, w_rules)
           /\ last_event_time' =
                 IF outcome = "dispatched"
                 THEN [q \in DOMAIN last_event_time \cup {ev.src} |->
                          IF q = ev.src THEN now ELSE last_event_time[q]]
                 ELSE last_event_time
           /\ workers' = IF outcome = "dispatched"
                         THEN workers \cup {NewWorker(ev, Len(log) + 1)}
                         ELSE workers
           /\ log' = Append(log, [type |-> ev.type, src |-> ev.src,
                                  dest |-> ev.dest, t |-> now,
                                  outcome |-> outcome])
    /\ UNCHANGED <<disk, ignorefile, db, now>>
    /\ UNCHANGED watchFrame

\* ProjectWatcher.on_any_event, for the event at the head of the queue (the
\* observer delivers file events one at a time, in order).
on_any_event ==
    /\ events # <<>>
    /\ LET ev == Head(events)
           outcome == IF should_ignore(ev.src, w_rules) THEN "ignored"
                      ELSE IF Debounced(ev.src) THEN "dropped"
                      ELSE "dispatched"
       IN  /\ events' = Tail(events)
           /\ w_rules' = RulesAfter(ev.src, w_rules)
           /\ last_event_time' =
                 IF outcome = "dispatched"
                 THEN [q \in DOMAIN last_event_time \cup {ev.src} |->
                          IF q = ev.src THEN now ELSE last_event_time[q]]
                 ELSE last_event_time
           /\ workers' = IF outcome = "dispatched"
                         THEN workers \cup {NewWorker(ev, Len(log) + 1)}
                         ELSE workers
           /\ log' = Append(log, [type |-> ev.type, src |-> ev.src,
                                  dest |-> ev.dest, t |-> now,
                                  outcome |-> outcome])
    /\ UNCHANGED <<disk, ignorefile, db, now>>
    /\ UNCHANGED watchFrame

\* UniversalCodeIndexer.get_stored_hash: the hash of one row of the path, None
\* when there is none.
StoredHashes(p) ==
    IF DOMAIN RowsOf(db, p) = {} THEN {None}
    ELSE {r.hash : r \in DOMAIN RowsOf(db, p)}

Becomes(w, pc) == (workers \ {w}) \cup {[w EXCEPT !.pc = pc]}

\* _run_upsert, steps 1 to 3: the fingerprint on disk against the one stored
run_upsert_check(w) ==
    /\ w.kind = "upsert" /\ w.pc = "start"
    /\ LET current_hash == get_file_hash(w.src)
       IN  IF current_hash = None
           THEN workers' = workers \ {w}
           ELSE \E stored_hash \in StoredHashes(w.src) :
                    IF current_hash = stored_hash
                    THEN workers' = workers \ {w}
                    ELSE workers' = Becomes(w, "write")
    /\ UNCHANGED <<disk, ignorefile, db, now, events, last_event_time,
                   w_rules, log>>
    /\ UNCHANGED watchFrame

\* _run_upsert, step 4: upsert_file under db_lock
run_upsert_write(w) ==
    /\ w.kind = "upsert" /\ w.pc = "write"
    /\ db' = UpsertDb(db, w.src)
    /\ workers' = workers \ {w}
    /\ UNCHANGED <<disk, ignorefile, now, events, last_event_time, w_rules,
                   log>>
    /\ UNCHANGED watchFrame

\* ProjectWatcher._run_delete: delete_file under db_lock
run_delete(w) ==
    /\ w.kind = "delete" /\ w.pc = "start"
    /\ db' = DeleteDb(db, w.src)
    /\ workers' = workers \ {w}
    /\ UNCHANGED <<disk, ignorefile, now, events, last_event_time, w_rules,
                   log>>
    /\ UNCHANGED watchFrame

\* _run_move, up to `if ignore_src and ignore_dest: return`
run_move_check(w) ==
    /\ w.kind = "move" /\ w.pc = "start"
    /\ LET rules1 == RulesAfter(w.src, w_rules)
           ignore_src == should_ignore(w.src, w_rules)
           ignore_dest == should_ignore(w.dest, rules1)
       IN  /\ w_rules' = RulesAfter(w.dest, rules1)
           /\ IF ignore_src /\ ignore_dest
              THEN workers' = workers \ {w}
              ELSE workers' = (workers \ {w}) \cup
                       {[w EXCEPT !.pc = "write",
                                  !.ignore_src = ignore_src,
                                  !.ignore_dest = ignore_dest]}
    /\ UNCHANGED <<disk, ignorefile, db, now, events, last_event_time, log>>
    /\ UNCHANGED watchFrame

\* A plausible slip: the move deletes the old path and upserts the new one
\* whatever the two ignore tests said.
run_move_write_both(w) ==
    /\ w.kind = "move" /\ w.pc = "write"
    /\ db' = UpsertDb(DeleteDb(db, w.src), w.dest)
    /\ workers' = workers \ {w}
    /\ UNCHANGED <<disk, ignorefile, now, events, last_event_time, w_rules,
                   log>>
    /\ UNCHANGED watchFrame

\* _run_move under db_lock: delete the old path, upsert the new one
run_move_write(w) ==
    /\ w.kind = "move" /\ w.pc = "write"
    /\ LET db1 == IF w.ignore_src THEN db ELSE DeleteDb(db, w.src)
       IN  db' = IF w.ignore_dest THEN db1 ELSE UpsertDb(db1, w.dest)
    /\ workers' = workers \ {w}
    /\ UNCHANGED <<disk, ignorefile, now, events, last_event_time, w_rules,
                   log>>
    /\ UNCHANGED watchFrame

---------------------------------------------------------------------------
(* The watcher of one active project: files change, the observer queues    *)
(* events, on_any_event dispatches workers, the workers run.               *)

MaxTime == 4       \* the clock stops here
MaxEvents == 3     \* filesystem changes in one behaviour
MaxQueue == 1      \* events waiting for on_any_event

WatchPaths == {PA, PT, PG}
WatchContents == {C_small, C_other}
\* What the user does: writes a.py and a.tmp, deletes a.py and gen/g.py,
\* renames a.tmp to a.py (an editor's save), a.py to a.tmp, a.py to gen/g.py.
WatchWrites == {PA, PT}
WatchDeletes == {PA, PG}
WatchMoves == {<<PT, PA>>, <<PA, PT>>, <<PA, PG>>}
WatchInitDisks == {[p \in {PA} |-> C_small], [p \in {PG} |-> C_small]}

\* The project has just been activated: sync_project has indexed the files
\* on disk, the watcher has loaded its rules, no event has arrived.
WatchInit ==
    /\ LockIdle
    /\ SideIdle
    /\ disk \in WatchInitDisks
    /\ ignorefile = {}
    /\ gitignore = {}
    /\ db = UpsertAll(EmptyBag, DOMAIN scan_disk_hashes)
    /\ table_exists = TRUE
    /\ lastOp = [op |-> "none"]
    /\ h_in = <<>>
    /\ h_pc = "off"
    /\ h_res = None
    /\ now = COOL_DOWN
    /\ events = <<>>
    /\ last_event_time = << >>
    /\ w_rules = reload_ignore_rules
    /\ workers = {}
    /\ log = <<>>

MayChange == Len(log) + Len(events) < MaxEvents /\ Len(events) < MaxQueue

Tick ==
    /\ now < MaxTime
    /\ now' = now + 1
    /\ UNCHANGED <<disk, ignorefile, db, events, last_event_time, w_rules,
                   workers, log>>
    /\ UNCHANGED watchFrame

\* A file is created or written: a created or a modified event.
FsWrite(p, c) ==
    /\ MayChange
    /\ disk' = [q \in DOMAIN disk \cup {p} |-> IF q = p THEN c ELSE disk[q]]
    /\ events' = Append(events,
                        Event(IF p \in DOMAIN disk THEN "modified"
                              ELSE "created", p, p))
    /\ UNCHANGED <<ignorefile, db, now, last_event_time, w_rules, workers,
                   log>>
    /\ UNCHANGED watchFrame

\* A file is deleted: a deleted event.
FsDelete(p) ==
    /\ MayChange
    /\ p \in DOMAIN disk
    /\ disk' = [q \in DOMAIN disk \ {p} |-> disk[q]]
    /\ events' = Append(events, Event("deleted", p, p))
    /\ UNCHANGED <<ignorefile, db, now, last_event_time, w_rules, workers,
                   log>>
    /\ UNCHANGED watchFrame

\* A file is renamed: a moved event.
FsMove(p, q) ==
    /\ MayChange
    /\ p \in DOMAIN disk
    /\ p # q
    /\ disk' = [r \in (DOMAIN disk \ {p}) \cup {q} |->
                   IF r = q THEN disk[p] ELSE disk[r]]
    /\ events' = Append(events, Event("moved", p, q))
    /\ UNCHANGED <<ignorefile, db, now, last_event_time, w_rules, workers,
                   log>>
    /\ UNCHANGED watchFrame

\* .crickignore is rewritten: a modified event for it.
FsEditIgnore(lines) ==
    /\ MayChange
    /\ lines # ignorefile
    /\ ignorefile' = lines
    /\ events' = Append(events, Event("modified", PI, PI))
    /\ UNCHANGED <<disk, db, now, last_event_time, w_rules, workers, log>>
    /\ UNCHANGED watchFrame

WatchNext ==
    \/ Tick
    \/ \E p \in WatchWrites : \E c \in WatchContents : FsWrite(p, c)
    \/ \E p \in WatchDeletes : FsDelete(p)
    \/ \E m \in WatchMoves : FsMove(m[1], m[2])
    \/ \E lines \in IgnoreFiles : FsEditIgnore(lines)
    \/ on_any_event
    \/ \E w \in workers : run_upsert_check(w)
    \/ \E w \in workers : run_upsert_write(w)
    \/ \E w \in workers : run_delete(w)
    \/ \E w \in workers : run_move_check(w)
    \/ \E w \in workers : run_move_write(w)

SpecWatch == WatchInit /\ [][WatchNext]_vars

\* Nothing is pending: every event was handled, every worker has finished.
Quiescent == events = <<>> /\ workers = {}

\* The index reflects the file: its rows carry the hash of the content on
\* disk, or it has no row when the file is gone.
Reflects(p) ==
    IF p \in DOMAIN disk
    THEN /\ DOMAIN RowsOf(db, p) # {}
         /\ \A r \in DOMAIN RowsOf(db, p) : r.hash = get_file_hash(p)
    ELSE DOMAIN RowsOf(db, p) = {}

\* The path was created, written or deleted under the watcher's eyes, and no
\* rename was involved in the behaviour.
ChangedInPlace(p) ==
    /\ \E i \in DOMAIN log : log[i].src = p
    /\ \A i \in DOMAIN log : log[i].type # "moved"

\* C2: after a create, modify or delete of a non-ignored file and no further
\* change, the index comes to reflect the file through the watcher alone.
\* When nothing is pending the watcher will do nothing more, so by then the
\* index must reflect the file.
C2_WatcherConverges ==
    Quiescent =>
        \A p \in WatchPaths :
            (ChangedInPlace(p) /\ ~should_ignore(p, w_rules)) => Reflects(p)

\* C3: when no event and no worker is pending, the index holds no chunk for a
\* path that is gone from disk or that the ignore rules exclude.
C3_NoStaleChunks ==
    Quiescent =>
        \A p \in WatchPaths :
            (p \notin DOMAIN disk \/ should_ignore(p, w_rules))
                => DOMAIN RowsOf(db, p) = {}

\* Event j arrives in the cool-down window a dispatched event k of the same
\* path opened.
InWindowOf(k, j) ==
    /\ k < j
    /\ log[k].src = log[j].src
    /\ log[k].outcome = "dispatched"
    /\ log[j].t - log[k].t < COOL_DOWN

ModifiedPair(i, j) ==
    /\ i < j
    /\ log[i].type = "modified" /\ log[j].type = "modified"
    /\ log[i].src = log[j].src

C38_DropKeepsCoolDown ==
    /\ [][\A p \in WatchPaths :
            LastTime(p)' # LastTime(p) =>
                /\ Len(log') = Len(log) + 1
                /\ log'[Len(log')].src = p
                /\ log'[Len(log')].outcome = "dispatched"
                /\ LastTime(p)' = log'[Len(log')].t]_vars
    /\ [](\A j \in DOMAIN log :
            log[j].outcome # "ignored" =>
                \E k \in 1..j :
                    /\ log[k].src = log[j].src
                    /\ log[k].outcome = "dispatched"
                    /\ log[j].t - log[k].t < COOL_DOWN)

\* Three events of a.py half a second apart: dispatched, dropped, dispatched.
C38_Witness ==
    /\ Len(log) = 3
    /\ \A j \in 1..3 : log[j].src = PA
    /\ log[2].t = log[1].t + 1 /\ log[3].t = log[2].t + 1
    /\ log[1].outcome = "dispatched"
    /\ log[2].outcome = "dropped"
    /\ log[3].outcome = "dispatched"

\* C39: every file the disk scan of sync_project would index is accepted by
\* the watcher: no path is eligible for the scan and at the same time ignored
\* by _should_ignore under the rules as they are on disk.
C39_ScannedIsWatched ==
    \A p \in WatchPaths :
        ScanEligible(p) => ~should_ignore(p, reload_ignore_rules)

\* C10: a moved event from an ignored source to a non-ignored destination
\* results in an upsert of the destination (and in no delete of the source).
\* When the rename was the last event and nothing is pending, the destination
\* is indexed with the content it has on disk.
C10_MoveFromIgnored ==
    (Quiescent /\ log # <<>>) =>
        LET ev == log[Len(log)]
        IN  (/\ ev.type = "moved"
             /\ should_ignore(ev.src, w_rules)
             /\ ~should_ignore(ev.dest, w_rules)
             /\ ev.dest \in DOMAIN disk)
            => Reflects(ev.dest)

---------------------------------------------------------------------------
(* The watcher with its write lock spelled out: a worker that has to write *)
(* waits for db_lock, holds it while delete_file / upsert_file run, and    *)
(* releases it; the observer thread goes on delivering events meanwhile.   *)
(* db_lock is [holder |-> the worker's id or 0, since |-> the number of    *)
(* events handled when it was taken].                                      *)

\* What the workers' locking never touches.
dispatchFrame == <<gitignore, table_exists, lastOp, hashVars, clock,
                   registry, threads, regVars, sideVars>>

\* The worker has reached `with self.db_lock:`.
AtDbLock(w) ==
    \/ w.kind = "delete" /\ w.pc = "start"
    \/ w.kind \in {"upsert", "move"} /\ w.pc = "write"

\* with self.db_lock: the worker gets the lock when no other holds it.
enter_db_lock(w) ==
    /\ AtDbLock(w)
    /\ db_lock.holder = 0
    /\ db_lock' = [holder |-> w.id, since |-> Len(log)]
    /\ workers' = Becomes(w, "locked")
    /\ UNCHANGED <<disk, ignorefile, db, now, events, last_event_time,
                   w_rules, log>>
    /\ UNCHANGED dispatchFrame

\* What the body of the with block leaves in the index.
Written(w) ==
    CASE w.kind = "upsert" -> UpsertDb(db, w.src)
      [] w.kind = "delete" -> DeleteDb(db, w.src)
      [] w.kind = "move" ->
            LET db1 == IF w.ignore_src THEN db ELSE DeleteDb(db, w.src)
            IN  IF w.ignore_dest THEN db1 ELSE UpsertDb(db1, w.dest)

\* The body of the with block has run (however long it took); the lock is
\* released and the worker thread ends.
leave_db_lock(w) ==
    /\ w.pc = "locked"
    /\ db' = Written(w)
    /\ db_lock' = [holder |-> 0, since |-> 0]
    /\ workers' = workers \ {w}
    /\ UNCHANGED <<disk, ignorefile, now, events, last_event_time, w_rules,
                   log>>
    /\ UNCHANGED dispatchFrame

\* WatchInit, with the ProjectWatcher's db_lock free.
DispatchInit ==
    /\ clock = 0
    /\ registry = [ctx |-> None, last_cleanup |-> 0,
                   creating |-> FALSE, gens |-> 0]
    /\ db_lock = [holder |-> 0, since |-> 0]
    /\ threads = {}
    /\ creg = [contexts |-> << >>, last_cleanup |-> 0, lock |-> 0, made |-> 0]
    /\ calls = {}
    /\ fs_roots = {}
    /\ reg_hist = [held |-> << >>, evicted |-> {}, errors |-> {},
                   started |-> {}, stopped |-> {}, down |-> FALSE,
                   issued |-> 0, stop_log |-> {}]
    /\ SideIdle
    /\ disk \in WatchInitDisks
    /\ ignorefile = {}
    /\ gitignore = {}
    /\ db = UpsertAll(EmptyBag, DOMAIN scan_disk_hashes)
    /\ table_exists = TRUE
    /\ lastOp = [op |-> "none"]
    /\ h_in = <<>>
    /\ h_pc = "off"
    /\ h_res = None
    /\ now = COOL_DOWN
    /\ events = <<>>
    /\ last_event_time = << >>
    /\ w_rules = reload_ignore_rules
    /\ workers = {}
    /\ log = <<>>

DispatchNext ==
    \/ Tick
    \/ \E p \in WatchWrites : \E c \in WatchContents : FsWrite(p, c)
    \/ \E p \in WatchDeletes : FsDelete(p)
    \/ \E m \in WatchMoves : FsMove(m[1], m[2])
    \/ on_any_event
    \/ \E w \in workers : run_upsert_check(w)
    \/ \E w \in workers : run_move_check(w)
    \/ \E w \in workers : enter_db_lock(w)
    \/ \E w \in workers : leave_db_lock(w)

SpecDispatch == DispatchInit /\ [][DispatchNext]_vars

\* The worker that holds db_lock.
Holder == {w \in workers : w.id = db_lock.holder}

\* C33: the event handler never waits for the write lock.  Whenever an event
\* is pending on_any_event can run, also while a worker holds db_lock; an
\* event it handles while the lock is held leaves the lock with its holder
\* and, unless it is ignored or debounced, gets a worker of its own, which
\* is at its start; and the workers queue on the lock: only its holder is
\* inside the with block.
C33_HandlerNeverWaits ==
    /\ [](events # <<>> => ENABLED on_any_event)
    /\ [](\A w \in workers : w.pc = "locked" => w.id = db_lock.holder)
    /\ [][(Len(log') > Len(log) /\ db_lock.holder # 0) =>
            /\ db_lock' = db_lock
            /\ Holder \subseteq workers'
            /\ LET e == log'[Len(log')]
               IN  e.outcome = "dispatched" <=>
                     \E w \in workers' \ workers :
                        w.src = e.src /\ w.pc = "start"]_vars

\* While the worker for one path holds db_lock the delete of another path
\* was dispatched: its worker waits for the lock.
C33_Witness ==
    \E h \in Holder : \E w \in workers :
        /\ h.kind = "upsert"
        /\ w.src # h.src
        /\ w.id > db_lock.since
        /\ AtDbLock(w)

\* Event j is the last one handled, a created event that was dispatched for
\* a file that is on disk, and event i is the deleted event before it for the
\* same path, dispatched too, with no event of the path in between.
DeletedThenCreated(i, j) ==
    /\ i < j /\ j = Len(log)
    /\ log[i].type = "deleted" /\ log[i].outcome = "dispatched"
    /\ log[j].type = "created" /\ log[j].outcome = "dispatched"
    /\ log[j].src = log[i].src
    /\ log[j].src \in DOMAIN disk
    /\ \A k \in (i + 1)..(j - 1) : log[k].src # log[i].src

\* C37: a deleted event for a path followed, after the cool-down, by a
\* created event for it and by no further event: once both workers have
\* finished the index holds the path's chunks with the hash of the file on
\* disk.
C37_DeleteThenCreate ==
    (events = <<>> /\ workers = {}) =>
        \A i, j \in DOMAIN log :
            DeletedThenCreated(i, j) => Reflects(log[j].src)

---------------------------------------------------------------------------
(* CodebaseRegistry and the serialisation of storage mutations.  One       *)
(* project root.  A context is one activation of the root: its engine, its *)
(* observer and its ProjectWatcher, whose __init__ makes the context's own *)
(* db_lock.  get_db_path maps the root to one storage directory, whichever *)
(* context opens it.                                                       *)

CLEANUP_INTERVAL == 2   \* 1800 seconds, in quarter hours

MaxClock == 3      \* the registry's clock stops here
MaxGens == 2       \* contexts created for the root in one behaviour
MaxThreads == 2    \* watcher workers alive at once
MaxRefs == 2       \* sessions that hold the root at once

SYNC == 0          \* the thread id of the executor thread that runs sync

\* The storage mutations a thread issues, in order.  upsert_file deletes the
\* path's rows and inserts the new ones; _run_move deletes the source and
\* upserts the destination; sync_project deletes a stale path and upserts a
\* changed one, or finds nothing to do.
WorkerOps(kind) ==
    CASE kind = "upsert" -> <<"delete", "insert">>
      [] kind = "delete" -> <<"delete">>
      [] kind = "move"   -> <<"delete", "delete", "insert">>

SyncPlans == {<<>>, <<"delete">>, <<"delete", "insert">>}

WorkerKinds == {"upsert", "delete", "move"}

IsWorker(t) == t.kind \in WorkerKinds

\* The threads inside a delete-by-path or a chunk insert right now.
Mutating == {t \in threads : t.pc = "mutating"}

\* _cleanup_inactive: at most once per interval, a context unused for longer
\* than the interval is stopped (its observer only) and forgotten.
cleanup_inactive(reg) ==
    IF clock - reg.last_cleanup < CLEANUP_INTERVAL THEN reg
    ELSE [reg EXCEPT
            !.ctx = IF reg.ctx # None
                       /\ clock - reg.ctx.last_used > CLEANUP_INTERVAL
                    THEN None ELSE reg.ctx,
            !.last_cleanup = clock]

\* ensure_initialized: the periodic cleanup, then a cache hit, or the start
\* of _create_context: a new engine whose sync_project runs in an executor
\* thread while the registry's lock stays held.
ensure_initialized ==
    /\ ~registry.creating
    /\ LET reg == cleanup_inactive(registry)
       IN  IF reg.ctx # None
           THEN /\ reg.ctx.ref_count < MaxRefs
                /\ registry' = [reg EXCEPT
                                  !.ctx.ref_count = reg.ctx.ref_count + 1,
                                  !.ctx.last_used = clock]
                /\ UNCHANGED threads
           ELSE /\ reg.gens < MaxGens
                /\ \E plan \in SyncPlans :
                     threads' = threads \cup
                        {[id |-> SYNC, gen |-> reg.gens + 1, kind |-> "sync",
                          pc |-> "start", todo |-> plan]}
                /\ registry' = [reg EXCEPT !.creating = TRUE,
                                           !.gens = reg.gens + 1]
    /\ UNCHANGED <<clock, db_lock, lockFrame>>

\* _create_context after sync_project returned: start_watcher makes the
\* ProjectWatcher (and its db_lock) and starts the observer; the context is
\* registered.
create_context_done ==
    \E t \in threads :
        /\ t.kind = "sync" /\ t.pc = "start" /\ t.todo = <<>>
        /\ threads' = threads \ {t}
        /\ db_lock' = (t.gen :> 0) @@ db_lock
        /\ registry' = [registry EXCEPT
                          !.creating = FALSE,
                          !.ctx = [gen |-> t.gen, ref_count |-> 1,
                                   last_used |-> clock]]
        /\ UNCHANGED <<clock, lockFrame>>

\* release on an active root (on an inactive one it only logs a warning).
release ==
    /\ ~registry.creating
    /\ registry.ctx # None
    /\ registry.ctx.ref_count > -MaxRefs
    /\ registry' = [registry EXCEPT
                      !.ctx.ref_count = registry.ctx.ref_count - 1,
                      !.ctx.last_used = clock]
    /\ UNCHANGED <<clock, db_lock, threads, lockFrame>>

\* on_any_event of the running observer dispatches a worker thread.
spawn_worker ==
    /\ registry.ctx # None
    /\ Cardinality({t \in threads : IsWorker(t)}) < MaxThreads
    /\ \E kind \in WorkerKinds :
         LET id == CHOOSE n \in 1..MaxThreads :
                      \A t \in threads : t.id # n
         IN  threads' = threads \cup
                {[id |-> id, gen |-> registry.ctx.gen, kind |-> kind,
                  pc |-> "start", todo |-> WorkerOps(kind)]}
    /\ UNCHANGED <<clock, registry, db_lock, lockFrame>>

\* _run_upsert returns before the lock: the file is unreadable or its hash
\* is the stored one.
run_upsert_skip ==
    \E t \in threads :
        /\ t.kind = "upsert" /\ t.pc = "start"
        /\ threads' = threads \ {t}
        /\ UNCHANGED <<clock, registry, db_lock, lockFrame>>

\* with self.db_lock: the lock of the worker's own ProjectWatcher.
acquire_db_lock ==
    \E t \in threads :
        /\ IsWorker(t) /\ t.pc = "start"
        /\ db_lock[t.gen] = 0
        /\ db_lock' = [db_lock EXCEPT ![t.gen] = t.id]
        /\ threads' = (threads \ {t}) \cup {[t EXCEPT !.pc = "locked"]}
        /\ UNCHANGED <<clock, registry, lockFrame>>

\* Where a thread stands between two storage mutations: a worker inside its
\* context's db_lock, sync_project anywhere (it takes no db_lock; the RLock
\* upsert_file takes belongs to the context's own engine and is shared with
\* no other context).
Ready(t) == IF IsWorker(t) THEN "locked" ELSE "start"

\* table.delete or table.add begins.
begin_mutation ==
    \E t \in threads :
        /\ t.pc = Ready(t) /\ t.todo # <<>>
        /\ threads' = (threads \ {t}) \cup {[t EXCEPT !.pc = "mutating"]}
        /\ UNCHANGED <<clock, registry, db_lock, lockFrame>>

\* table.delete or table.add returns.
end_mutation ==
    \E t \in threads :
        /\ t.pc = "mutating"
        /\ threads' = (threads \ {t}) \cup
              {[t EXCEPT !.pc = Ready(t), !.todo = Tail(t.todo)]}
        /\ UNCHANGED <<clock, registry, db_lock, lockFrame>>

\* The with block ends and the worker thread with it.
release_db_lock ==
    \E t \in threads :
        /\ IsWorker(t) /\ t.pc = "locked" /\ t.todo = <<>>
        /\ db_lock' = [db_lock EXCEPT ![t.gen] = 0]
        /\ threads' = threads \ {t}
        /\ UNCHANGED <<clock, registry, lockFrame>>

ClockTick ==
    /\ clock < MaxClock
    /\ clock' = clock + 1
    /\ UNCHANGED <<registry, db_lock, threads, lockFrame>>

LocksInit ==
    /\ LockIdle
    /\ SideIdle
    /\ disk = << >>
    /\ ignorefile = {}
    /\ gitignore = {}
    /\ db = EmptyBag
    /\ table_exists = FALSE
    /\ lastOp = [op |-> "none"]
    /\ h_in = <<>>
    /\ h_pc = "off"
    /\ h_res = None
    /\ now = 0
    /\ events = <<>>
    /\ last_event_time = << >>
    /\ w_rules = [dirs |-> {}, exts |-> {}]
    /\ workers = {}
    /\ log = <<>>

LocksNext ==
    \/ ensure_initialized
    \/ create_context_done
    \/ release
    \/ spawn_worker
    \/ run_upsert_skip
    \/ acquire_db_lock
    \/ begin_mutation
    \/ end_mutation
    \/ release_db_lock
    \/ ClockTick

SpecLocks == LocksInit /\ [][LocksNext]_vars

\* C4: for one project, no two storage mutations (delete-by-path or chunk
\* insert) execute at the same time, whoever issues them: the watcher's
\* workers, sync_project, or the workers and engine of a context of the same
\* root that was evicted and then activated again.
C4_MutationsSerialized == Cardinality(Mutating) <= 1

---------------------------------------------------------------------------
(* Moves out of the index *)

\* The move worker w is about to write for a move from a path that is not
\* ignored to one that is.
MoveToIgnored(w) ==
    /\ w.kind = "move" /\ w.pc = "write"
    /\ ~w.ignore_src /\ w.ignore_dest

---------------------------------------------------------------------------
(* CodebaseRegistry over several roots, call by call.  Its methods are      *)
(* coroutines of one event loop: a call runs until it has to wait for the   *)
(* registry's lock, which _create_context holds while sync_project runs in  *)
(* an executor thread.                                                     *)

Roots == {"r1", "r2"}

MaxCalls == 4      \* registry calls issued in one behaviour
MaxInFlight == 2   \* calls that have not returned, at once

\* Counters of the history, per root.
Count(f, r) == IF r \in DOMAIN f THEN f[r] ELSE 0
Bump(f, r, d) ==
    [q \in DOMAIN f \cup {r} |-> IF q = r THEN Count(f, r) + d ELSE f[q]]

Without(f, gone) == [q \in DOMAIN f \ gone |-> f[q]]

With(f, r, v) == [q \in DOMAIN f \cup {r} |-> IF q = r THEN v ELSE f[q]]

\* The observers of the contexts in the map that have one.
ObserversOf(ctxs, rs) ==
    {ctxs[r].observer.id :
        r \in {q \in rs \cap DOMAIN ctxs : ctxs[q].observer # None}}

\* shutdown is called once, at process teardown: nothing runs after it.
Up == ~reg_hist.down

MayCall ==
    /\ Up
    /\ reg_hist.issued < MaxCalls
    /\ Cardinality(calls) < MaxInFlight

Step(c, pc) == (calls \ {c}) \cup {[c EXCEPT !.pc = pc]}

\* A plausible slip: no existence test, every call goes for the lock.
AfterExistsUnchecked(c, cs) == cs \cup {[c EXCEPT !.pc = "lock", !.t = 0]}

\* ensure_initialized, lines 125 to 128: a root that is not on disk raises
\* ValueError and the call is over; otherwise the call goes for the lock.
AfterExists(c, cs) ==
    IF c.root \in fs_roots THEN cs \cup {[c EXCEPT !.pc = "lock", !.t = 0]}
    ELSE cs

Raised(c) == IF c.root \in fs_roots THEN {} ELSE {c.root}

\* A caller invokes ensure_initialized(raw_path).  _cleanup_inactive returns
\* at once when no sweep is due (lines 39 to 41) and the call runs on to the
\* existence test; a sweep that is due has to take the lock first.
call_ensure_initialized ==
    /\ MayCall
    /\ \E r \in Roots :
         LET c == [id |-> CHOOSE n \in 1..MaxInFlight :
                             \A d \in calls : d.id # n,
                   root |-> r, pc |-> "sweep", t |-> clock]
         IN  IF clock - creg.last_cleanup < CLEANUP_INTERVAL
             THEN /\ calls' = AfterExists(c, calls)
                  /\ reg_hist' = [reg_hist EXCEPT
                                    !.issued = @ + 1,
                                    !.errors = @ \cup Raised(c)]
             ELSE /\ calls' = calls \cup {c}
                  /\ reg_hist' = [reg_hist EXCEPT !.issued = @ + 1]
    /\ UNCHANGED <<creg, fs_roots, clock, regFrame>>

\* A plausible slip: the sweep spares the contexts that are still referenced.
ToRemoveUnreferenced(t) ==
    {r \in DOMAIN creg.contexts :
        /\ t - creg.contexts[r].last_used > CLEANUP_INTERVAL
        /\ creg.contexts[r].ref_count <= 0}

\* The roots the sweep removes: unused for longer than the interval at the
\* time the sweep read the clock.
ToRemove(t) ==
    {r \in DOMAIN creg.contexts :
        t - creg.contexts[r].last_used > CLEANUP_INTERVAL}

\* What _stop_context meets when it stops an observer: the thread ends within
\* the join timeout, it is still alive after join(timeout=5) (a warning is
\* logged), or observer.stop / join raises.
StopOutcomes == {"stopped", "alive", "raised"}

\* A plausible slip: the except clause is missing and the exception leaves
\* _stop_context.
StopPropagatesRaise(outcome) == outcome = "raised"

\* Whether _stop_context raises to its caller: the whole stop and join is
\* inside try / except Exception, which logs and goes on.
StopPropagates(outcome) == FALSE

\* What _stop_context writes to the log besides the final info line.
StopLogged(outs) == {outs[r] : r \in DOMAIN outs} \ {"stopped"}

\* _cleanup_inactive under the lock: _stop_context and del for every root to
\* remove, then _last_cleanup; the call runs on to the existence test.  An
\* exception out of _stop_context would leave the loop before the del and
\* before _last_cleanup, and end the call.
cleanup_sweep ==
    \E c \in calls :
        /\ Up
        /\ c.pc = "sweep"
        /\ creg.lock = 0
        /\ LET gone == ToRemove(c.t)
           IN  \E outs \in [gone -> StopOutcomes] :
                 IF \E r \in gone : StopPropagates(outs[r])
                 THEN /\ reg_hist' = [reg_hist EXCEPT
                            !.errors = @ \cup {c.root},
                            !.stop_log = @ \cup StopLogged(outs)]
                      /\ calls' = calls \ {c}
                      /\ UNCHANGED creg
                 ELSE /\ creg' = [creg EXCEPT
                            !.contexts = Without(creg.contexts, gone),
                            !.last_cleanup = c.t]
                      /\ reg_hist' = [reg_hist EXCEPT
                            !.stopped = @ \cup ObserversOf(creg.contexts, gone),
                            !.evicted = @ \cup gone,
                            !.errors = @ \cup Raised(c),
                            !.stop_log = @ \cup StopLogged(outs)]
                      /\ calls' = AfterExists(c, calls \ {c})
        /\ UNCHANGED <<fs_roots, clock, regFrame>>

\* A plausible slip: the map is read and the context is created without the
\* registry's lock.
lock_section_unlocked ==
    \E c \in calls :
        /\ Up
        /\ c.pc = "lock"
        /\ IF c.root \in DOMAIN creg.contexts
           THEN LET ctx == creg.contexts[c.root]
                IN  /\ creg' = [creg EXCEPT !.contexts[c.root] =
                                  [ctx EXCEPT !.ref_count = ctx.ref_count + 1,
                                              !.last_used = clock]]
                    /\ calls' = calls \ {c}
                    /\ reg_hist' = [reg_hist EXCEPT
                                      !.held = Bump(@, c.root, 1)]
           ELSE /\ creg' = [creg EXCEPT !.lock = c.id]
                /\ calls' = Step(c, "sync")
                /\ UNCHANGED reg_hist
        /\ UNCHANGED <<fs_roots, clock, regFrame>>

\* ensure_initialized under the lock: a cache hit, or the start of
\* _create_context, whose sync_project runs in an executor thread while the
\* call keeps the lock.
lock_section ==
    \E c \in calls :
        /\ Up
        /\ c.pc = "lock"
        /\ creg.lock = 0
        /\ IF c.root \in DOMAIN creg.contexts
           THEN LET ctx == creg.contexts[c.root]
                IN  /\ creg' = [creg EXCEPT !.contexts[c.root] =
                                  [ctx EXCEPT !.ref_count = ctx.ref_count + 1,
                                              !.last_used = clock]]
                    /\ calls' = calls \ {c}
                    /\ reg_hist' = [reg_hist EXCEPT
                                      !.held = Bump(@, c.root, 1)]
           ELSE /\ creg' = [creg EXCEPT !.lock = c.id]
                /\ calls' = Step(c, "sync")
                /\ UNCHANGED reg_hist
        /\ UNCHANGED <<fs_roots, clock, regFrame>>

\* _create_context after sync_project: start_watcher returns an observer, or
\* None when the root is not on disk any more; the context is registered
\* with ref_count 1 and the lock is released.
create_context ==
    \E c \in calls :
        /\ Up
        /\ c.pc = "sync"
        /\ LET id == creg.made + 1
               observer == IF c.root \in fs_roots THEN [id |-> id] ELSE None
           IN  /\ creg' = [creg EXCEPT
                    !.contexts = With(@, c.root,
                        [id |-> id, ref_count |-> 1, last_used |-> clock,
                         observer |-> observer]),
                    !.lock = 0,
                    !.made = id]
               /\ reg_hist' = [reg_hist EXCEPT
                    !.held = Bump(@, c.root, 1),
                    !.started = IF observer = None THEN @ ELSE @ \cup {id}]
        /\ calls' = calls \ {c}
        /\ UNCHANGED <<fs_roots, clock, regFrame>>

\* observer.start() raises in start_watcher (the operating system refuses
\* the watch): the exception leaves _create_context and ensure_initialized,
\* the lock is released, no context is registered.
create_context_raises ==
    \E c \in calls :
        /\ Up
        /\ c.pc = "sync"
        /\ c.root \in fs_roots
        /\ creg' = [creg EXCEPT !.lock = 0]
        /\ calls' = calls \ {c}
        /\ UNCHANGED <<fs_roots, reg_hist, clock, regFrame>>

\* A plausible slip: release tears the context down when its last reference
\* goes.
call_release_evicting ==
    /\ MayCall
    /\ creg.lock = 0
    /\ \E r \in Roots :
         /\ Count(reg_hist.held, r) > 0
         /\ creg' = IF r \notin DOMAIN creg.contexts THEN creg
                    ELSE IF creg.contexts[r].ref_count = 1
                    THEN [creg EXCEPT !.contexts = Without(@, {r})]
                    ELSE [creg EXCEPT !.contexts[r] =
                            [@ EXCEPT !.ref_count = @ - 1,
                                      !.last_used = clock]]
         /\ reg_hist' = [reg_hist EXCEPT !.held = Bump(@, r, -1),
                                         !.issued = @ + 1]
    /\ UNCHANGED <<calls, fs_roots, clock, regFrame>>

\* A session that holds the root calls release(raw_path): after the lock,
\* ref_count goes down by one and last_used is refreshed; a root that is
\* not active gets a warning only.
call_release ==
    /\ MayCall
    /\ creg.lock = 0
    /\ \E r \in Roots :
         /\ Count(reg_hist.held, r) > 0
         /\ creg' = IF r \notin DOMAIN creg.contexts THEN creg
                    ELSE [creg EXCEPT !.contexts[r] =
                            [@ EXCEPT !.ref_count = @ - 1,
                                      !.last_used = clock]]
         /\ reg_hist' = [reg_hist EXCEPT !.held = Bump(@, r, -1),
                                         !.issued = @ + 1]
    /\ UNCHANGED <<calls, fs_roots, clock, regFrame>>

\* A plausible slip: shutdown leaves the contexts that are still referenced.
call_shutdown_unreferenced ==
    /\ Up
    /\ creg.lock = 0
    /\ LET gone == {r \in DOMAIN creg.contexts :
                       creg.contexts[r].ref_count <= 0}
       IN  /\ creg' = [creg EXCEPT !.contexts = Without(@, gone)]
           /\ reg_hist' = [reg_hist EXCEPT
                 !.stopped = @ \cup ObserversOf(creg.contexts, gone),
                 !.down = TRUE]
    /\ UNCHANGED <<calls, fs_roots, clock, regFrame>>

\* shutdown(): under the lock, _stop_context for every context, then the map
\* is cleared.
call_shutdown ==
    /\ Up
    /\ creg.lock = 0
    /\ creg' = [creg EXCEPT !.contexts = << >>]
    /\ reg_hist' = [reg_hist EXCEPT
         !.stopped = @ \cup ObserversOf(creg.contexts, DOMAIN creg.contexts),
         !.down = TRUE]
    /\ UNCHANGED <<calls, fs_roots, clock, regFrame>>

\* The roots the user removes while the server runs.
Removable == {"r2"}

\* The user removes a project directory.
RemoveRoot ==
    /\ Up
    /\ \E r \in fs_roots \cap Removable : fs_roots' = fs_roots \ {r}
    /\ UNCHANGED <<creg, calls, reg_hist, clock, regFrame>>

RegistryTick ==
    /\ Up
    /\ clock < MaxClock
    /\ clock' = clock + 1
    /\ UNCHANGED <<regVars, regFrame>>

RegistryInit ==
    /\ SideIdle
    /\ clock = 0
    /\ registry = [ctx |-> None, last_cleanup |-> 0,
                   creating |-> FALSE, gens |-> 0]
    /\ db_lock = << >>
    /\ threads = {}
    /\ creg = [contexts |-> << >>, last_cleanup |-> 0, lock |-> 0, made |-> 0]
    /\ calls = {}
    /\ fs_roots = Roots
    /\ reg_hist = [held |-> << >>, evicted |-> {}, errors |-> {},
                   started |-> {}, stopped |-> {}, down |-> FALSE,
                   issued |-> 0, stop_log |-> {}]
    /\ disk = << >>
    /\ ignorefile = {}
    /\ gitignore = {}
    /\ db = EmptyBag
    /\ table_exists = FALSE
    /\ lastOp = [op |-> "none"]
    /\ h_in = <<>>
    /\ h_pc = "off"
    /\ h_res = None
    /\ now = 0
    /\ events = <<>>
    /\ last_event_time = << >>
    /\ w_rules = [dirs |-> {}, exts |-> {}]
    /\ workers = {}
    /\ log = <<>>

RegistryNext ==
    \/ call_ensure_initialized
    \/ cleanup_sweep
    \/ lock_section
    \/ create_context
    \/ create_context_raises
    \/ call_release
    \/ call_shutdown
    \/ RemoveRoot
    \/ RegistryTick

SpecRegistry == RegistryInit /\ [][RegistryNext]_vars

---------------------------------------------------------------------------
(* The registry's contract *)

Active == DOMAIN creg.contexts

\* The watcher of an active root has been started and not asked to stop.
WatcherRunning(r) ==
    /\ creg.contexts[r].observer # None
    /\ creg.contexts[r].observer.id \in reg_hist.started \ reg_hist.stopped

\* C12: after N calls of ensure_initialized(root) and N-1 of release(root),
\* no idle timeout elapsing, the project is active; the Nth release does not
\* evict it: it stays in the map with its watcher running until a sweep (or
\* shutdown) removes it.  While a root was never evicted its ref_count is the
\* number of sessions that hold it, a root that is held is in the map, and
\* a root leaves the map only in a sweep that found it idle or at shutdown.
C12_ReleaseDefersEviction ==
    /\ [](\A r \in Roots :
            (r \notin reg_hist.evicted /\ Up)
            => /\ Count(reg_hist.held, r) >= 1 => r \in Active
               /\ r \in Active =>
                    creg.contexts[r].ref_count = Count(reg_hist.held, r))
    /\ [][\A r \in Active :
            r \notin DOMAIN creg.contexts' =>
                \/ reg_hist.down'
                \/ \E c \in calls :
                      /\ c.pc = "sweep"
                      /\ c.t - creg.contexts[r].last_used > CLEANUP_INTERVAL]_vars

\* Two sessions took r1 and both released it: ref_count is 0, the context
\* is in the map and its watcher runs.
C12_Witness ==
    /\ "r1" \in Active
    /\ "r1" \notin reg_hist.evicted
    /\ reg_hist.issued = 4
    /\ creg.contexts["r1"].ref_count = 0
    /\ WatcherRunning("r1")

\* C13: the reference count of every active context is >= 0 in every
\* reachable state.
C13_RefCountNonNegative ==
    \A r \in Active : creg.contexts[r].ref_count >= 0

\* This step is an idle sweep: _last_cleanup moves.
IsSweep == creg.last_cleanup' # creg.last_cleanup

\* C14: the idle sweep evicts every active project whose last_used is older
\* than the threshold, whatever its reference count, and no project whose
\* last_used is within it.
C14_SweepEvictsIdle ==
    [][IsSweep =>
        \A r \in Active :
            IF creg.last_cleanup' - creg.contexts[r].last_used
                  > CLEANUP_INTERVAL
            THEN /\ r \notin DOMAIN creg.contexts'
                 /\ ObserversOf(creg.contexts, {r}) \subseteq reg_hist.stopped'
            ELSE /\ r \in DOMAIN creg.contexts'
                 /\ creg.contexts'[r] = creg.contexts[r]]_vars

\* r1 was swept away while a session still held it.
C14_Witness ==
    /\ Up
    /\ "r1" \in reg_hist.evicted
    /\ "r1" \notin Active
    /\ Count(reg_hist.held, "r1") >= 1

\* C32: an idle sweep stops the watcher of every root it evicts and then
\* removes the root from the map, whatever the stop met: a watcher thread
\* still alive after the join timeout, or a stop that raises, is logged and
\* the sweep still completes, removes the context, leaves the lock free and
\* lets the call go on to the existence test.
C32_EvictionCompletes ==
    [][\A c \in calls :
         (c.pc = "sweep" /\ c \notin calls') =>
            /\ ToRemove(c.t) \cap DOMAIN creg.contexts' = {}
            /\ ObserversOf(creg.contexts, ToRemove(c.t))
                   \subseteq reg_hist.stopped'
            /\ creg.last_cleanup' = c.t
            /\ creg.lock' = 0
            /\ c.root \in fs_roots =>
                   \E d \in calls' : d.id = c.id /\ d.pc = "lock"]_vars

\* Sweeps have met both a watcher that outlived the join and a stop that
\* raised, and r1 is evicted.
C32_Witness ==
    /\ reg_hist.stop_log = {"alive", "raised"}
    /\ "r1" \in reg_hist.evicted
    /\ "r1" \notin Active

\* The calls that are creating a context.
Creating == {c \in calls : c.pc = "sync"}

\* C15: under any interleaving of concurrent ensure_initialized calls, every
\* root has at most one active context, one sync and one watcher: one call
\* at a time creates, for a root that is not active; every watcher that runs
\* is the one of a context in the map; and a call that returns has either
\* added one to the ref_count of the context that was there, or registered
\* the one new context with ref_count 1.
C15_OneContextPerRoot ==
    /\ [](/\ Cardinality(Creating) <= 1
          /\ \A c \in Creating :
                c.root \notin Active /\ creg.lock = c.id
          /\ reg_hist.started \ reg_hist.stopped
                \subseteq ObserversOf(creg.contexts, Active))
    /\ [][\A r \in Roots :
            Count(reg_hist.held', r) = Count(reg_hist.held, r) + 1 =>
                IF r \in Active
                THEN /\ creg.contexts'[r].id = creg.contexts[r].id
                     /\ creg.contexts'[r].ref_count
                            = creg.contexts[r].ref_count + 1
                     /\ creg.made' = creg.made
                ELSE /\ creg.contexts'[r].ref_count = 1
                     /\ creg.made' = creg.made + 1]_vars

\* Two calls for r1, which is not active: one runs sync_project with the
\* lock, the other waits for the lock.
C15_Witness ==
    /\ \E c \in Creating : c.root = "r1"
    /\ \E c \in calls : c.root = "r1" /\ c.pc = "lock"

\* The calls for a root that have passed the existence test.
PastCheck(r) ==
    {c.id : c \in {d \in calls : d.root = r /\ d.pc \in {"lock", "sync"}}}

C17_ActiveHasWatcher ==
    \A r \in Active : creg.contexts[r].observer # None

\* C18: after shutdown() the active map is empty and the watcher of every
\* project that was active has been asked to stop, whatever the reference
\* counts and last_used times.
C18_ShutdownStopsAll ==
    reg_hist.down =>
        /\ creg.contexts = << >>
        /\ reg_hist.started \subseteq reg_hist.stopped

\* shutdown() ran while r1 was held and had never been swept: its watcher
\* has been asked to stop.
C18_Witness ==
    /\ reg_hist.down
    /\ Count(reg_hist.held, "r1") >= 1
    /\ "r1" \notin reg_hist.evicted
    /\ reg_hist.stopped # {}

---------------------------------------------------------------------------
(* delete_file and the frame of the single-file operations *)

\* C19: delete_file(path) removes all chunks whose metadata path is the path;
\* when no chunk matches, or when the table does not exist yet, it returns
\* without raising and leaves the backend unchanged.
C19_DeleteTolerant ==
    [][\A p \in EnginePaths :
        (lastOp'.op = "delete" /\ lastOp'.path = p)
        => /\ ~lastOp'.raised
           /\ RowsOf(db', p) = EmptyBag
           /\ (RowsOf(db, p) = EmptyBag \/ ~table_exists)
                => (db' = db /\ table_exists' = table_exists)]_vars

\* delete_file ran before the table was created and the backend raised
\* "Table not initialized".
C19_Witness ==
    /\ lastOp.op = "delete"
    /\ lastOp.outcome = "table_not_initialized"
    /\ ~table_exists

\* C20: delete_file(p) and upsert_file(p) change only the chunks whose
\* metadata path is p: the chunks of every other path are the same before
\* and after the call.
C20_FrameOfFileOps ==
    [][\A p \in EnginePaths :
        (lastOp'.op \in {"delete", "upsert"} /\ lastOp'.path = p)
        => \A q \in EnginePaths \ {p} : RowsOf(db', q) = RowsOf(db, q)]_vars

\* notes.txt had chunks and delete_file removed them; a.py still has its own.
C20_Witness ==
    /\ lastOp.op = "delete" /\ lastOp.path = PN /\ lastOp.had
    /\ RowsOf(db, PN) = EmptyBag
    /\ RowsOf(db, PA) # EmptyBag

---------------------------------------------------------------------------
(* One project's engine when things go wrong: files that cannot be opened, *)
(* operations on one file that raise, a read of the stored fingerprint     *)
(* that fails, and a search that runs while upsert_file is between its     *)
(* delete and its insert.                                                  *)

\* What the faulty engine never touches.
faultFrame == <<ignorefile, gitignore, hashVars, watchVars, lockVars, regVars,
                limitVars, embVars, orderVars, shadowVars>>

FaultPaths == {PA, PN}

\* The path a request searches for.
SearchPaths == {PA}

FaultContents(p) == IF p = PA THEN {C_small, C_big} ELSE {C_small}

\* How the operation on one queued file ends: "ok"; "early", an exception
\* before the backend was changed (the read, the chunking, or the delete
\* itself); "late", an exception in add_contents, after delete_file has
\* removed the old rows.
FaultKinds == {"ok", "early", "late"}

\* A plausible slip: an exception on one file leaves the loop.
AbortsOnFault(f) == f # "ok"

\* Whether an exception on one file leaves sync_project's loops: upsert_file
\* and delete_file catch every Exception themselves.
Aborts(f) == FALSE

\* upsert_file returns before its delete: binary or unreadable, or blank.
Skips(p) ==
    is_binary_file(p) \/ Strip(ReadText(disk[p])) = <<>>

\* delete_file when the backend may raise
DeleteUnder(dbv, p, f) == IF f = "ok" THEN DeleteDb(dbv, p) ELSE dbv

\* upsert_file when the file's operation may raise
UpsertUnder(dbv, p, f) ==
    IF f = "ok" \/ Skips(p) THEN UpsertDb(dbv, p)
    ELSE IF f = "early" THEN dbv
    ELSE DeleteDb(dbv, p)

\* A set as a list, in the order the loop meets its members.
RECURSIVE SeqOf(_)
SeqOf(ps) ==
    IF ps = {} THEN <<>>
    ELSE LET p == CHOOSE q \in ps : TRUE
         IN  <<p>> \o SeqOf(ps \ {p})

Ops(op, ps) == [k \in 1..Len(ps) |-> [op |-> op, path |-> ps[k]]]

\* A plausible slip: the two loops the other way round.
SyncOrderUpsertsFirst(to_delete, to_upsert) ==
    Ops("upsert", SeqOf(to_upsert)) \o Ops("delete", SeqOf(to_delete))

\* sync_project, step 4: `for p in to_delete: delete_file`, then
\* `for p in to_upsert: upsert_file`.
SyncOrder(to_delete, to_upsert) ==
    Ops("delete", SeqOf(to_delete)) \o Ops("upsert", SeqOf(to_upsert))

\* One queued operation, ending as f says.
RunOp(dbv, o, f) ==
    IF o.op = "delete" THEN DeleteUnder(dbv, o.path, f)
    ELSE UpsertUnder(dbv, o.path, f)

\* sync_project's two loops over the queue: the table they leave and the
\* operations they ran, in order.
RECURSIVE RunQueue(_, _, _, _)
RunQueue(dbv, queue, flt, ran) ==
    IF queue = <<>> THEN [db |-> dbv, order |-> ran]
    ELSE LET o == Head(queue)
             db1 == RunOp(dbv, o, flt[o.path])
         IN  IF Aborts(flt[o.path])
             THEN [db |-> db1, order |-> Append(ran, o)]
             ELSE RunQueue(db1, Tail(queue), flt, Append(ran, o))

\* UniversalCodeIndexer.sync_project, each queued file's operation ending as
\* flt says.  The pass runs before the context's watcher is started, so no
\* upsert_file of a worker is under way.
f_sync_project ==
    /\ upserting = None
    /\ \E flt \in [ToUpsert \cup ToDelete -> FaultKinds] :
         LET u == RunQueue(db, SyncOrder(ToDelete, ToUpsert), flt, <<>>)
         IN  /\ db' = u.db
             /\ lastOp' = [op |-> "sync", to_upsert |-> ToUpsert,
                           to_delete |-> ToDelete, faults |-> flt,
                           order |-> u.order]
    /\ table_exists' = Created(db')
    /\ UNCHANGED <<disk, unreadable, upserting, seen>>
    /\ UNCHANGED faultFrame

\* A plausible slip: the comparison is left out and every event upserts.
UnchangedNever(current_hash, stored_hash) == FALSE

\* _run_upsert, step 3: `if current_hash == stored_hash: return`
Unchanged(current_hash, stored_hash) == current_hash = stored_hash

\* ProjectWatcher._run_upsert for a created or modified event of p, up to and
\* with upsert_file's delete_file.  read_ok is whether get_stored_hash could
\* read the store: when it could not it returns None, and _run_upsert goes on
\* to the upsert.
f_run_upsert(p) ==
    /\ upserting = None
    /\ \E read_ok \in BOOLEAN :
       \E stored_hash \in IF read_ok THEN StoredHashes(p) ELSE {None} :
         LET current_hash == get_file_hash(p)
             issued == /\ current_hash # None
                       /\ ~Unchanged(current_hash, stored_hash)
             begins == issued /\ ~Skips(p)
             content == ReadText(disk[p])
         IN  /\ db' = IF begins THEN DeleteDb(db, p) ELSE db
             /\ upserting' =
                  IF begins
                  THEN [path |-> p, before |-> RowsOf(db, p),
                        rows |-> Payload(p, compute_content_hash(content),
                                         ChunkDocs(p, content))]
                  ELSE None
             /\ lastOp' = [op |-> "run_upsert", path |-> p,
                           current_hash |-> current_hash,
                           stored_hash |-> stored_hash,
                           read_ok |-> read_ok, issued |-> issued]
    /\ UNCHANGED <<disk, table_exists, unreadable, seen>>
    /\ UNCHANGED faultFrame

\* upsert_file, step 8: knowledge.add_contents, which may raise
f_add_contents ==
    /\ upserting # None
    /\ \E f \in {"ok", "late"} :
         /\ db' = IF f = "ok" THEN add_contents(db, upserting.rows) ELSE db
         /\ lastOp' = [op |-> "insert", path |-> upserting.path, fault |-> f]
    /\ table_exists' = Created(db')
    /\ upserting' = None
    /\ UNCHANGED <<disk, unreadable, seen>>
    /\ UNCHANGED faultFrame

\* UniversalCodeIndexer.search from a request's thread: it takes no lock and
\* reads the table as it stands.  seen records what it could find of p.
f_search(p) ==
    /\ seen' = [path |-> p, rows |-> RowsOf(db, p),
                during |-> upserting # None /\ upserting.path = p,
                before |-> IF upserting = None THEN RowsOf(db, p)
                           ELSE upserting.before,
                after |-> IF upserting = None THEN RowsOf(db, p)
                          ELSE SetToBag(upserting.rows)]
    /\ lastOp' = [op |-> "search", path |-> p]
    /\ UNCHANGED <<disk, db, table_exists, unreadable, upserting>>
    /\ UNCHANGED faultFrame

\* A file is created or overwritten.
FaultWrite(p, c) ==
    /\ p \notin unreadable
    /\ disk' = [q \in DOMAIN disk \cup {p} |-> IF q = p THEN c ELSE disk[q]]
    /\ lastOp' = [op |-> "write", path |-> p]
    /\ UNCHANGED <<db, table_exists, unreadable, upserting, seen>>
    /\ UNCHANGED faultFrame

\* Another program locks the file, or its permissions are taken away.
FaultLock(p) ==
    /\ p \in DOMAIN disk /\ p \notin unreadable
    /\ unreadable' = unreadable \cup {p}
    /\ lastOp' = [op |-> "lock", path |-> p]
    /\ UNCHANGED <<disk, db, table_exists, upserting, seen>>
    /\ UNCHANGED faultFrame

\* The file can be read again.
FaultUnlock(p) ==
    /\ p \in unreadable
    /\ unreadable' = unreadable \ {p}
    /\ lastOp' = [op |-> "unlock", path |-> p]
    /\ UNCHANGED <<disk, db, table_exists, upserting, seen>>
    /\ UNCHANGED faultFrame

\* A file is removed.
FaultRemove(p) ==
    /\ p \in DOMAIN disk /\ p \notin unreadable
    /\ disk' = [q \in DOMAIN disk \ {p} |-> disk[q]]
    /\ lastOp' = [op |-> "remove", path |-> p]
    /\ UNCHANGED <<db, table_exists, unreadable, upserting, seen>>
    /\ UNCHANGED faultFrame

FaultsInit ==
    /\ LockIdle
    /\ SideIdle
    /\ disk = << >>
    /\ ignorefile = {}
    /\ gitignore = {}
    /\ db = EmptyBag
    /\ table_exists = FALSE
    /\ lastOp = [op |-> "none"]
    /\ h_in = <<>>
    /\ h_pc = "off"
    /\ h_res = None
    /\ now = 0
    /\ events = <<>>
    /\ last_event_time = <<>>
    /\ w_rules = [dirs |-> {}, exts |-> {}]
    /\ workers = {}
    /\ log = <<>>

FaultsNext ==
    \/ \E p \in FaultPaths : \E c \in FaultContents(p) :
          FaultWrite(p, c)
    \/ \E p \in FaultPaths : FaultRemove(p)
    \/ \E p \in FaultPaths : FaultLock(p)
    \/ \E p \in FaultPaths : FaultUnlock(p)
    \/ f_sync_project
    \/ \E p \in FaultPaths : f_run_upsert(p)
    \/ f_add_contents
    \/ \E p \in SearchPaths : f_search(p)

SpecFaults == FaultsInit /\ [][FaultsNext]_vars

---------------------------------------------------------------------------
(* Claims about files that cannot be read and operations that fail *)

\* C21: a file that is on disk but cannot be read is never treated as
\* deleted: neither the watcher's upsert path nor sync_project removes its
\* index entries; it is skipped and its stored chunks stay.
C21_UnreadableNeverDeleted ==
    [][\A p \in FaultPaths :
        (/\ p \in DOMAIN disk
         /\ p \in unreadable
         /\ lastOp'.op \in {"sync", "run_upsert"})
        => RowsOf(db', p) = RowsOf(db, p)]_vars

\* C22: for a missing file the hasher yields the "no fingerprint" result, and
\* the caller can tell this result from the "unreadable" result the hasher
\* gives when the reads keep failing after the bounded number of retries.
C22_MissingVsUnreadable ==
    \A p \in FaultPaths :
        p \notin DOMAIN disk
        => /\ get_file_hash(p) = None
           /\ \A q \in FaultPaths :
                (q \in DOMAIN disk /\ q \in unreadable)
                    => get_file_hash(q) # get_file_hash(p)

\* The fingerprints stored for p.
StoredFor(p) == {r.hash : r \in DOMAIN RowsOf(db, p)}

\* C23 as stated: for a created or modified event whose on-disk fingerprint
\* equals the fingerprint already stored for the path, the watcher performs
\* no backend mutation; an upsert is issued only when the fingerprints differ
\* or none is stored.
C23_AsStated ==
    [][\A p \in FaultPaths :
        (lastOp'.op = "run_upsert" /\ lastOp'.path = p)
        => LET current_hash == get_file_hash(p)
           IN  /\ (current_hash # None /\ StoredFor(p) = {current_hash})
                    => (db' = db /\ upserting' = None)
               /\ lastOp'.issued
                    => (StoredFor(p) = {} \/ StoredFor(p) # {current_hash})]_vars

\* C23, amended: when the on-disk fingerprint equals the fingerprint that
\* get_stored_hash returns for the path, the watcher performs no backend
\* mutation; an upsert is issued only when the two differ, which includes
\* get_stored_hash returning None because no chunk is stored or because the
\* read of the store failed.
C23_Amended ==
    [][\A p \in FaultPaths :
        (lastOp'.op = "run_upsert" /\ lastOp'.path = p)
        => LET current_hash == get_file_hash(p)
           IN  /\ (/\ current_hash # None
                   /\ lastOp'.read_ok
                   /\ StoredFor(p) = {current_hash})
                    => (db' = db /\ upserting' = None /\ ~lastOp'.issued)
               /\ lastOp'.issued
                    => \/ ~lastOp'.read_ok
                       \/ StoredFor(p) = {}
                       \/ StoredFor(p) # {current_hash}]_vars

\* A modified event for a file whose content is what the index holds: the
\* stored fingerprint was read, it matched, and nothing was issued.
C23_Witness ==
    /\ lastOp.op = "run_upsert"
    /\ lastOp.read_ok
    /\ lastOp.current_hash # None
    /\ lastOp.stored_hash = lastOp.current_hash
    /\ ~lastOp.issued
    /\ upserting = None
    /\ StoredFor(lastOp.path) = {lastOp.current_hash}

\* C24: a failure on one file during sync_project is skipped and never
\* aborts the pass: every other queued delete and upsert of the same pass is
\* still executed.
C24_FailuresDoNotAbort ==
    [][lastOp'.op = "sync"
        => /\ \A q \in lastOp'.to_delete :
                lastOp'.faults[q] = "ok" => RowsOf(db', q) = EmptyBag
           /\ \A q \in lastOp'.to_upsert :
                lastOp'.faults[q] = "ok"
                    => RowsOf(db', q) = RowsOf(UpsertDb(db, q), q)]_vars

\* A pass that queued a.py and notes.txt: the operation on one of them
\* failed and the other file was indexed all the same.
C24_Witness ==
    /\ lastOp.op = "sync"
    /\ lastOp.to_upsert = {PA, PN}
    /\ lastOp.faults[PA] # "ok" /\ lastOp.faults[PN] = "ok"
    /\ RowsOf(db, PA) = EmptyBag
    /\ RowsOf(db, PN) # EmptyBag

\* C25: a query that runs concurrently with upsert_file(p) never observes a
\* half-updated chunk set for p: it sees p's chunks as they were before the
\* upsert or as they are after it.
C25_UpsertAtomicToQueries ==
    (seen # None /\ seen.during) => seen.rows \in {seen.before, seen.after}

---------------------------------------------------------------------------
(* Workers of an evicted context *)

\* The thread t is still there after the step, wherever it stands.
StillRuns(t) == \E u \in threads' : u.id = t.id /\ u.gen = t.gen

\* After an eviction the watcher accepts no new events: a worker is only
\* ever started for the context that is active.
C26_NoNewEvents ==
    [][\A u \in threads' :
        (IsWorker(u) /\ ~\E t \in threads : t.id = u.id /\ t.gen = u.gen)
        => (registry.ctx # None /\ u.gen = registry.ctx.gen)]_vars

\* A dispatched worker is not aborted: it leaves only when it has finished.
C26_NotAborted ==
    [][\A t \in threads :
        (IsWorker(t) /\ ~StillRuns(t))
        => (t.todo = <<>> \/ (t.kind = "upsert" /\ t.pc = "start"))]_vars

\* A worker of an evicted context is a no-op for a later activation of the
\* root: once a later context has been created, it begins no mutation of
\* the root's storage.
C26_StaleNoOps ==
    [][\A t \in threads :
        (IsWorker(t) /\ t.gen < registry.gens /\ t.pc # "mutating")
        => \A u \in threads' :
              (u.id = t.id /\ u.gen = t.gen) => u.pc # "mutating"]_vars

\* C26: after a project is evicted its watcher accepts no new events, and
\* the workers already dispatched are not aborted: they run to completion
\* and act as no-ops against the stale context, leaving the backend state of
\* a later activation of the same root unchanged.
C26_EvictedWorkers ==
    C26_NoNewEvents /\ C26_NotAborted /\ C26_StaleNoOps

---------------------------------------------------------------------------
(* The shared embedder: get_shared_embedder called from several threads, a *)
(* thread switch possible between any two statements.                      *)

MaxCallers == 3    \* threads that call get_shared_embedder

Callers == 1..MaxCallers

\* What the embedder's harness never touches.
embFrame == <<engineVars, hashVars, watchVars, lockVars, regVars, faultVars,
              limitVars, orderVars, shadowVars>>

\* The caller t moves to pc.
Goes(t, pc) == [e_threads EXCEPT ![t].pc = pc]

\* A thread (an engine being built for a project that is activated) calls
\* get_shared_embedder: the first `if _shared_embedder is None`.
first_check(t) ==
    /\ e_threads[t].pc = "idle"
    /\ e_threads' = [e_threads EXCEPT
                       ![t].pc = IF shared_embedder = None THEN "acquire"
                                 ELSE "return",
                       ![t].raced = shared_embedder = None]
    /\ UNCHANGED <<shared_embedder, embedder_lock, e_built, embFrame>>

\* with _embedder_lock:
acquire_embedder_lock(t) ==
    /\ e_threads[t].pc = "acquire"
    /\ embedder_lock = 0
    /\ embedder_lock' = t
    /\ e_threads' = Goes(t, "check")
    /\ UNCHANGED <<shared_embedder, e_built, embFrame>>

\* A plausible slip: no second test under the lock.
SecondCheckSkipped(sh) == TRUE

\* The second `if _shared_embedder is None`, under the lock.
SecondCheck(sh) == sh = None

second_check(t) ==
    /\ e_threads[t].pc = "check"
    /\ e_threads' = Goes(t, IF SecondCheck(shared_embedder) THEN "construct"
                            ELSE "unlock")
    /\ UNCHANGED <<shared_embedder, embedder_lock, e_built, embFrame>>

\* _shared_embedder = SentenceTransformerEmbedder(...): a model is built and
\* the global is bound to it.
construct(t) ==
    /\ e_threads[t].pc = "construct"
    /\ e_built' = e_built + 1
    /\ shared_embedder' = [model |-> e_built + 1]
    /\ e_threads' = Goes(t, "unlock")
    /\ UNCHANGED <<embedder_lock, embFrame>>

\* The with block ends.
release_embedder_lock(t) ==
    /\ e_threads[t].pc = "unlock"
    /\ embedder_lock' = 0
    /\ e_threads' = Goes(t, "return")
    /\ UNCHANGED <<shared_embedder, e_built, embFrame>>

\* return _shared_embedder
return_embedder(t) ==
    /\ e_threads[t].pc = "return"
    /\ e_threads' = [e_threads EXCEPT ![t].pc = "done",
                                      ![t].res = shared_embedder]
    /\ UNCHANGED <<shared_embedder, embedder_lock, e_built, embFrame>>

EmbedderInit ==
    /\ LockIdle
    /\ FaultIdle
    /\ LimitIdle
    /\ OrderIdle
    /\ ShadowIdle
    /\ shared_embedder = None
    /\ embedder_lock = 0
    /\ e_threads = [t \in Callers |->
                       [pc |-> "idle", raced |-> FALSE, res |-> None]]
    /\ e_built = 0
    /\ disk = << >>
    /\ ignorefile = {}
    /\ gitignore = {}
    /\ db = EmptyBag
    /\ table_exists = FALSE
    /\ lastOp = [op |-> "none"]
    /\ h_in = <<>>
    /\ h_pc = "off"
    /\ h_res = None
    /\ now = 0
    /\ events = <<>>
    /\ last_event_time = <<>>
    /\ w_rules = [dirs |-> {}, exts |-> {}]
    /\ workers = {}
    /\ log = <<>>

EmbedderNext ==
    \/ \E t \in Callers : first_check(t)
    \/ \E t \in Callers : acquire_embedder_lock(t)
    \/ \E t \in Callers : second_check(t)
    \/ \E t \in Callers : construct(t)
    \/ \E t \in Callers : release_embedder_lock(t)
    \/ \E t \in Callers : return_embedder(t)

SpecEmbedder == EmbedderInit /\ [][EmbedderNext]_vars

\* The callers that have their embedder.
Returned == {t \in Callers : e_threads[t].pc = "done"}

\* C27: however the concurrent calls of get_shared_embedder interleave, the
\* embedding model is constructed at most once and every caller receives the
\* same instance.
C27_EmbedderOnce ==
    /\ e_built <= 1
    /\ \A t \in Returned :
          /\ e_threads[t].res # None
          /\ \A u \in Returned : e_threads[u].res = e_threads[t].res

\* Two callers both found no embedder at the first test, and every caller
\* has returned: one model was built.
C27_Witness ==
    /\ Returned = Callers
    /\ Cardinality({t \in Callers : e_threads[t].raced}) >= 2
    /\ e_built = 1

---------------------------------------------------------------------------
(* model_limits.py: the compression token limit of a model *)

\* MODEL_LIMITS
MODEL_LIMITS ==
    [m \in {"deepseek-chat", "glm-4.6", "glm-4.7"} |-> 84000]

DEFAULT_LIMIT == 32000

MaxCustom == 3     \* the small custom limits tried, from -2 up to this

\* An Optional[int]: None, or an integer in a box.
Int_(n) == [int |-> n]

ModelIds == DOMAIN MODEL_LIMITS \cup {"gpt-4o", ""}
CustomLimits ==
    {None} \cup {Int_(n) : n \in (-2..MaxCustom) \cup {1000, 4000, 32000, 84000}}

\* A plausible slip: `if custom_limit is not None`.
CustomGiven(custom_limit) == custom_limit # None

\* `if custom_limit and custom_limit > 0`
CustomApplies(custom_limit) ==
    /\ custom_limit # None
    /\ custom_limit.int # 0
    /\ custom_limit.int > 0

get_token_limit_for_model(model_id, custom_limit) ==
    IF CustomApplies(custom_limit) THEN custom_limit.int
    ELSE IF model_id \in DOMAIN MODEL_LIMITS THEN MODEL_LIMITS[model_id]
    ELSE DEFAULT_LIMIT

\* What the harness never touches.
limitFrame == <<engineVars, hashVars, watchVars, lockVars, regVars, faultVars,
                embVars, orderVars, shadowVars>>

\* The function is called on the arguments at hand.
LimitCall ==
    /\ l_res = None
    /\ l_res' = Int_(get_token_limit_for_model(l_in.model_id,
                                               l_in.custom_limit))
    /\ UNCHANGED <<l_in, limitFrame>>

\* Other settings arrive.
LimitAgain ==
    /\ l_res # None
    /\ \E m \in ModelIds : \E c \in CustomLimits :
         l_in' = [model_id |-> m, custom_limit |-> c]
    /\ l_res' = None
    /\ UNCHANGED limitFrame

LimitInit ==
    /\ LockIdle
    /\ FaultIdle
    /\ EmbIdle
    /\ OrderIdle
    /\ ShadowIdle
    /\ l_in \in [model_id : ModelIds, custom_limit : CustomLimits]
    /\ l_res = None
    /\ disk = << >>
    /\ ignorefile = {}
    /\ gitignore = {}
    /\ db = EmptyBag
    /\ table_exists = FALSE
    /\ lastOp = [op |-> "none"]
    /\ h_in = <<>>
    /\ h_pc = "off"
    /\ h_res = None
    /\ now = 0
    /\ events = <<>>
    /\ last_event_time = <<>>
    /\ w_rules = [dirs |-> {}, exts |-> {}]
    /\ workers = {}
    /\ log = <<>>

LimitNext == LimitCall \/ LimitAgain

SpecLimits == LimitInit /\ [][LimitNext]_vars

\* C28: get_token_limit_for_model(model_id, custom_limit) returns
\* custom_limit when it is provided and > 0; otherwise the limit registered
\* for model_id in MODEL_LIMITS (84000 for deepseek-chat); otherwise
\* DEFAULT_LIMIT.
C28_TokenLimit ==
    l_res # None =>
        LET c == l_in.custom_limit
            m == l_in.model_id
            custom == c # None /\ c.int > 0
        IN  /\ custom => l_res.int = c.int
            /\ (~custom /\ m = "deepseek-chat") => l_res.int = 84000
            /\ (~custom /\ m \in {"glm-4.6", "glm-4.7"}) => l_res.int = 84000
            /\ (~custom /\ m \in {"gpt-4o", ""}) => l_res.int = 32000

\* deepseek-chat with a custom limit of 0: the registered 84000 came back.
C28_Witness ==
    /\ l_res = Int_(84000)
    /\ l_in = [model_id |-> "deepseek-chat", custom_limit |-> Int_(0)]

---------------------------------------------------------------------------
(* upsert_file and sync_project once more *)

\* C29: within upsert_file(p) all existing chunks of p are deleted before
\* any new chunk is inserted, so that after the call every stored chunk of p
\* belongs to the new version, whatever the old and the new chunk counts: no
\* chunk of the old version remains.  (A binary file is skipped by
\* upsert_file's first step and is not a new version.)
C29_NoOldChunkRemains ==
    [][\A p \in EnginePaths :
        (/\ lastOp'.op = "upsert" /\ lastOp'.path = p
         /\ p \in DOMAIN disk /\ ~is_binary_file(p))
        => \A r \in DOMAIN RowsOf(db', p) :
              r.hash = compute_content_hash(ReadText(disk[p]))]_vars

\* The pass leaves p as it was / as upsert_file(p) leaves it / without rows.
Untouched(p) == RowsOf(db', p) = RowsOf(db, p)
Upserted(p) == RowsOf(db', p) = RowsOf(UpsertDb(db, p), p)
Deleted(p) == RowsOf(db', p) = EmptyBag

\* C30: sync_project upserts exactly the eligible on-disk paths whose
\* fingerprint is absent from, or differs from, the stored map and deletes
\* exactly the stored paths absent from the on-disk map; a path whose
\* fingerprints match is not touched; when both queues are empty the pass
\* makes no backend mutation and no index rebuild, so a second pass with no
\* disk change in between mutates nothing and rebuilds nothing.
C30_SyncQueues ==
    [][lastOp'.op = "sync"
        => LET disk_files == scan_disk_hashes
               db_state == get_db_state
           IN  /\ \A p \in EnginePaths :
                    LET on == p \in DOMAIN disk_files
                        st == p \in DOMAIN db_state
                    IN  /\ (on /\ st /\ db_state[p] = disk_files[p])
                             => Untouched(p)
                        /\ (on /\ (~st \/ db_state[p] # disk_files[p]))
                             => Upserted(p)
                        /\ (st /\ ~on) => Deleted(p)
                        /\ (~st /\ ~on) => Untouched(p)
               /\ (ToUpsert = {} /\ ToDelete = {})
                    => (db' = db /\ ~lastOp'.rebuilt)
               /\ lastOp'.run = 2 => (db' = db /\ ~lastOp'.rebuilt)]_vars

---------------------------------------------------------------------------
(* The order of a pass *)

\* C31: within one sync_project pass, every queued delete is executed before
\* the first queued upsert.
C31_DeletesBeforeUpserts ==
    lastOp.op = "sync" =>
        /\ {o.path : o \in {lastOp.order[k] : k \in DOMAIN lastOp.order}}
              = lastOp.to_delete \cup lastOp.to_upsert
        /\ \A i, j \in DOMAIN lastOp.order :
              (lastOp.order[i].op = "upsert" /\ lastOp.order[j].op = "delete")
                  => j < i

\* A pass that had a stale path to delete and a new file to index.
C31_Witness ==
    /\ lastOp.op = "sync"
    /\ lastOp.to_delete # {} /\ lastOp.to_upsert # {}
    /\ Len(lastOp.order) = 2
    /\ lastOp.order[1].op = "delete" /\ lastOp.order[2].op = "upsert"

---------------------------------------------------------------------------
(* The two fingerprints side by side: a file of any content is saved, the  *)
(* engine indexes it, and then a modified event arrives although nothing   *)
(* has changed (a touch, an editor that rewrites the same content).        *)

\* What the harness never touches.
sameFrame == <<ignorefile, gitignore, lastOp, now, events, last_event_time,
               w_rules, workers, log, lockVars, regVars, sideVars>>

\* Every canonical content of at most MaxRuns runs: text, LF, CRLF and stray
\* CR in any mix.
SameContents ==
    {s \in UNION {[1..k -> HashRuns] : k \in 0..MaxRuns} :
        \A i \in 1..(Len(s) - 1) : s[i].c # s[i+1].c}

SameInit ==
    /\ LockIdle
    /\ SideIdle
    /\ h_in \in SameContents
    /\ h_pc = "start"
    /\ h_res = None
    /\ disk = << >>
    /\ ignorefile = {}
    /\ gitignore = {}
    /\ db = EmptyBag
    /\ table_exists = FALSE
    /\ lastOp = [op |-> "none"]
    /\ now = 0
    /\ events = <<>>
    /\ last_event_time = <<>>
    /\ w_rules = [dirs |-> {}, exts |-> {}]
    /\ workers = {}
    /\ log = <<>>

\* The file is written.
SameSave ==
    /\ h_pc = "start"
    /\ disk' = (PA :> h_in)
    /\ h_pc' = "saved"
    /\ UNCHANGED <<db, table_exists, h_in, h_res, sameFrame>>

\* upsert_file: the engine reads the file, fingerprints what it read and
\* stores the fingerprint with every chunk.
SameUpsert ==
    /\ h_pc = "saved"
    /\ db' = UpsertDb(db, PA)
    /\ table_exists' = Created(db')
    /\ h_pc' = "stored"
    /\ UNCHANGED <<disk, h_in, h_res, sameFrame>>

\* _run_upsert, steps 1 to 3, for an event on the unchanged file.
SameTouch ==
    /\ h_pc = "stored"
    /\ \E stored_hash \in StoredHashes(PA) :
         LET current_hash == get_file_hash(PA)
         IN  h_res' = [current_hash |-> current_hash,
                       stored_hash |-> stored_hash,
                       skipped |-> current_hash = None
                                   \/ Unchanged(current_hash, stored_hash)]
    /\ h_pc' = "checked"
    /\ UNCHANGED <<disk, db, table_exists, h_in, sameFrame>>

SameNext ==
    \/ SameSave
    \/ SameUpsert
    \/ SameTouch

SpecSame == SameInit /\ [][SameNext]_vars

---------------------------------------------------------------------------
(* The ignore file on its own: lines are written to .crick/.crickignore    *)
(* and load_crickignore_rules reads it.                                    *)

MaxLines == 4      \* lines in the ignore file

\* What the harness never touches.
ignoreFrame == <<disk, gitignore, db, table_exists, hashVars, watchVars,
                 lockVars, regVars, sideVars>>

\* The lines a user writes: a directory, an extension, a file name, a name
\* that begins with a dot, a bare word, a comment and a blank line.
IgnoreLines ==
    {DirLine("gen"), ExtLine(".log"), NameLine("notes", ".txt"),
     WordLine(".venv"), WordLine("Makefile"), CommentLine("/"), BlankLine}

IgnoreInit ==
    /\ LockIdle
    /\ SideIdle
    /\ disk = << >>
    /\ ignorefile = {}
    /\ gitignore = {}
    /\ db = EmptyBag
    /\ table_exists = FALSE
    /\ lastOp = [op |-> "none"]
    /\ h_in = <<>>
    /\ h_pc = "off"
    /\ h_res = None
    /\ now = 0
    /\ events = <<>>
    /\ last_event_time = << >>
    /\ w_rules = [dirs |-> {}, exts |-> {}]
    /\ workers = {}
    /\ log = <<>>

\* The user adds a line to the file.
WriteLine(l) ==
    /\ lastOp.op = "none"
    /\ l \notin ignorefile
    /\ Cardinality(ignorefile) < MaxLines
    /\ ignorefile' = ignorefile \cup {l}
    /\ UNCHANGED <<lastOp, ignoreFrame>>

\* load_crickignore_rules(project_root) is called.
LoadRules ==
    /\ lastOp.op = "none"
    /\ lastOp' = [op |-> "load", rules |-> load_crickignore_rules(ignorefile)]
    /\ UNCHANGED <<ignorefile, ignoreFrame>>

IgnoreNext ==
    \/ \E l \in IgnoreLines : WriteLine(l)
    \/ LoadRules

SpecIgnore == IgnoreInit /\ [][IgnoreNext]_vars

\* C35: load_crickignore_rules classifies each non-blank, non-comment line: a
\* trailing "/" adds a directory exclusion, a leading "*." an extension
\* exclusion, and any other line is stored verbatim as a raw pattern and adds
\* no directory or extension exclusion.
C35_LinesClassified ==
    lastOp.op = "load" =>
        LET rules == {l \in ignorefile : IsRule(l)}
            dir_lines == {l \in rules : l[2] = "/"}
            ext_lines == {l \in rules \ dir_lines : l[1] = "*"}
            r == lastOp.rules
        IN  /\ r.dirs = {l[1] : l \in dir_lines}
            /\ r.exts = {l[2] : l \in ext_lines}
            /\ rules \ (dir_lines \cup ext_lines) \subseteq r.patterns

---------------------------------------------------------------------------
(* The four locks and who nests them.  A thread or coroutine is the list   *)
(* of lock operations it has still to do; the observer thread handles one  *)
(* event at a time and starts the event's worker after it has left         *)
(* event_time_lock.                                                        *)

MaxStarted == 4    \* threads and coroutines started in one behaviour
MaxLive == 3       \* of them at work at once

LockNames == {"registry", "db_lock", "engine", "event_time_lock"}

Acq(l) == [op |-> "acquire", arg |-> l]
Rel(l) == [op |-> "release", arg |-> l]
Start(kind) == [op |-> "start", arg |-> kind]

OrderWorkers == {"upsert", "delete", "move"}
OrderCalls == {"ensure_create", "ensure_sweep", "release"}

\* A plausible slip: upsert_file is entered first and the watcher's write
\* lock is taken inside it.
ProgramEngineFirst(kind) ==
    CASE kind = "upsert" ->
            <<Acq("engine"), Acq("db_lock"), Rel("db_lock"), Rel("engine")>>
      [] kind = "delete" -> <<Acq("db_lock"), Rel("db_lock")>>
      [] kind = "move" ->
            <<Acq("db_lock"), Acq("engine"), Rel("engine"), Rel("db_lock")>>
      [] kind = "ensure_create" ->
            <<Acq("registry"), Acq("engine"), Rel("engine"), Rel("registry")>>
      [] kind = "ensure_sweep" ->
            <<Acq("registry"), Rel("registry"),
              Acq("registry"), Rel("registry")>>
      [] kind = "release" -> <<Acq("registry"), Rel("registry")>>
      [] OTHER -> <<>>

\* The lock operations of a thread, in order.
\*   _run_upsert: db_lock, and inside it upsert_file's engine lock;
\*   _run_delete: db_lock only (delete_file takes no lock);
\*   _run_move: db_lock, and inside it delete_file, then upsert_file;
\*   ensure_initialized that creates a context: the registry's lock, and
\*     inside it sync_project, whose upsert_file takes the engine lock;
\*   ensure_initialized when a sweep is due: the registry's lock for
\*     _cleanup_inactive, and again for the cache hit;
\*   release (and shutdown, get_existing_indexer, get_active_projects): one
\*     section under the registry's lock.
Program(kind) ==
    CASE kind = "upsert" ->
            <<Acq("db_lock"), Acq("engine"), Rel("engine"), Rel("db_lock")>>
      [] kind = "delete" -> <<Acq("db_lock"), Rel("db_lock")>>
      [] kind = "move" ->
            <<Acq("db_lock"), Acq("engine"), Rel("engine"), Rel("db_lock")>>
      [] kind = "ensure_create" ->
            <<Acq("registry"), Acq("engine"), Rel("engine"), Rel("registry")>>
      [] kind = "ensure_sweep" ->
            <<Acq("registry"), Rel("registry"),
              Acq("registry"), Rel("registry")>>
      [] kind = "release" -> <<Acq("registry"), Rel("registry")>>
      [] OTHER -> <<>>

\* on_any_event: the cool-down test under event_time_lock, then the worker
\* thread of the event; a dropped event starts none.
HandlerProgram(kind) ==
    <<Acq("event_time_lock"), Rel("event_time_lock")>>
        \o (IF kind = "dropped" THEN <<>> ELSE <<Start(kind)>>)

\* What the harness never touches.
orderFrame == <<engineVars, hashVars, watchVars, lockVars, regVars,
                faultVars, limitVars, embVars, shadowVars>>

Live(id) == \E t \in o_threads : t.id = id

\* The locks the thread holds.
HeldBy(id) == {l \in LockNames : locks[l] = id}

\* A registry method is called.
o_call(kind) ==
    /\ o_hist.started < MaxStarted
    /\ Cardinality(o_threads) < MaxLive
    /\ o_threads' = o_threads \cup
          {[id |-> o_hist.started + 1, kind |-> kind, todo |-> Program(kind)]}
    /\ o_hist' = [o_hist EXCEPT !.started = @ + 1]
    /\ UNCHANGED <<locks, orderFrame>>

\* The observer thread delivers an event: it handles one at a time.  The id
\* after the handler's is kept for the worker it may start.
o_event(kind) ==
    /\ o_hist.started + 2 <= MaxStarted
    /\ Cardinality(o_threads) + 2 <= MaxLive
    /\ \A t \in o_threads : t.kind # "handler"
    /\ o_threads' = o_threads \cup
          {[id |-> o_hist.started + 1, kind |-> "handler",
            todo |-> HandlerProgram(kind)]}
    /\ o_hist' = [o_hist EXCEPT !.started = @ + 2]
    /\ UNCHANGED <<locks, orderFrame>>

\* The thread has done its next operation; it ends with its last one.
Done(t) ==
    IF Len(t.todo) = 1 THEN o_threads \ {t}
    ELSE (o_threads \ {t}) \cup {[t EXCEPT !.todo = Tail(t.todo)]}

\* with lock: the thread gets the lock when it is free.
o_acquire(t) ==
    /\ t.todo # <<>>
    /\ Head(t.todo).op = "acquire"
    /\ locks[Head(t.todo).arg] = 0
    /\ locks' = [locks EXCEPT ![Head(t.todo).arg] = t.id]
    /\ o_hist' = [o_hist EXCEPT
          !.order = @ \cup {<<h, Head(t.todo).arg>> : h \in HeldBy(t.id)}]
    /\ o_threads' = Done(t)
    /\ UNCHANGED orderFrame

\* The with block ends.
o_release(t) ==
    /\ t.todo # <<>>
    /\ Head(t.todo).op = "release"
    /\ locks' = [locks EXCEPT ![Head(t.todo).arg] = 0]
    /\ o_threads' = Done(t)
    /\ UNCHANGED <<o_hist, orderFrame>>

\* threading.Thread(target=...).start()
o_start(t) ==
    /\ t.todo # <<>>
    /\ Head(t.todo).op = "start"
    /\ o_threads' = Done(t) \cup
          {[id |-> t.id + 1, kind |-> Head(t.todo).arg,
            todo |-> Program(Head(t.todo).arg)]}
    /\ UNCHANGED <<locks, o_hist, orderFrame>>

\* The thread can do its next operation now.
CanStep(t) ==
    Head(t.todo).op = "acquire" => locks[Head(t.todo).arg] = 0

\* Some thread does its next operation.
o_step(id) ==
    \E t \in o_threads :
        /\ t.id = id
        /\ (o_acquire(t) \/ o_release(t) \/ o_start(t))

OrderInit ==
    /\ LockIdle
    /\ FaultIdle /\ LimitIdle /\ EmbIdle /\ ShadowIdle
    /\ locks = [l \in LockNames |-> 0]
    /\ o_threads = {}
    /\ o_hist = [started |-> 0, order |-> {}]
    /\ disk = << >>
    /\ ignorefile = {}
    /\ gitignore = {}
    /\ db = EmptyBag
    /\ table_exists = FALSE
    /\ lastOp = [op |-> "none"]
    /\ h_in = <<>>
    /\ h_pc = "off"
    /\ h_res = None
    /\ now = 0
    /\ events = <<>>
    /\ last_event_time = << >>
    /\ w_rules = [dirs |-> {}, exts |-> {}]
    /\ workers = {}
    /\ log = <<>>

OrderNext ==
    \/ \E kind \in OrderCalls : o_call(kind)
    \/ \E kind \in OrderWorkers \cup {"dropped"} : o_event(kind)
    \/ \E t \in o_threads : o_acquire(t)
    \/ \E t \in o_threads : o_release(t)
    \/ \E t \in o_threads : o_start(t)

\* The scheduler runs every thread that can run, and the event loop every
\* coroutine that can.
SpecOrder ==
    /\ OrderInit
    /\ [][OrderNext]_vars
    /\ \A id \in 1..MaxStarted : WF_vars(o_step(id))

\* The pairs <<a, c>> with a path from a to c in the relation r.
RECURSIVE Closure(_, _)
Closure(r, n) ==
    IF n = 0 THEN r
    ELSE LET c == Closure(r, n - 1)
         IN  c \cup {<<x[1][1], x[2][2]>> :
                        x \in {y \in c \X c : y[1][2] = y[2][1]}}

\* C36: the registry's lock, the watcher's write lock, the engine's lock and
\* the debounce lock are never nested in a cyclic order; as long as a thread
\* or coroutine is at work one of them can take its next step; and every
\* one that started returns.
C36_NoDeadlock ==
    /\ [](\A l \in LockNames : <<l, l>> \notin Closure(o_hist.order, 2))
    /\ [](o_threads # {} => \E t \in o_threads : CanStep(t))
    /\ \A id \in 1..MaxStarted : Live(id) ~> ~Live(id)

\* _run_upsert is inside upsert_file under db_lock while sync_project, under
\* the registry's lock, waits for the engine's lock.
C36_Witness ==
    \E t1, t2 \in o_threads :
        /\ t1.kind = "upsert"
        /\ locks["db_lock"] = t1.id /\ locks["engine"] = t1.id
        /\ t2.kind = "ensure_create"
        /\ locks["registry"] = t2.id
        /\ Head(t2.todo) = Acq("engine")

---------------------------------------------------------------------------
(* The shadow workspace.  Every agent run (a chat turn) sets the context   *)
(* of the one ShadowWorkspace instance; the file tools call snapshot       *)
(* before they write; the undo endpoint calls rollback for a run.  Chat    *)
(* requests are served concurrently, so a run may begin while another is   *)
(* still streaming.                                                        *)

MaxTurns == 2      \* agent runs in one behaviour
MaxEdits == 2      \* tool edits of one run

ShadowPaths == {PA, PN}
ShadowContents == {C_small, C_other}

\* What the shadow workspace and the file tools never touch.
shadowFrame == <<ignorefile, gitignore, db, table_exists, hashVars, watchVars,
                 lockVars, regVars, faultVars, limitVars, embVars, orderVars>>

\* The content of a file, or None when there is no such file.
Content(c) == [content |-> c]

\* The backups in the shadow directory of run r.
ShadowDir(r) == IF r \in DOMAIN s_shadow THEN s_shadow[r] ELSE << >>

\* VibingManager.arun: a new run id, and set_context with it.
set_context ==
    /\ Len(s_runs) < MaxTurns
    /\ s_ctx' = [run |-> Len(s_runs) + 1]
    /\ s_runs' = Append(s_runs, [live |-> TRUE, edits |-> 0, first |-> << >>])
    /\ lastOp' = [op |-> "set_context", run |-> Len(s_runs) + 1]
    /\ UNCHANGED <<disk, s_shadow, shadowFrame>>

\* The agent's run is over.  Nothing clears the context.
end_run(r) ==
    /\ s_runs[r].live
    /\ s_runs' = [s_runs EXCEPT ![r].live = FALSE]
    /\ lastOp' = [op |-> "end_run", run |-> r]
    /\ UNCHANGED <<disk, s_ctx, s_shadow, shadowFrame>>

\* ShadowWorkspace.snapshot(file_path): nothing without a context, nothing
\* for a file that does not exist, nothing when the current run's directory
\* has a backup of the file already; else the file is copied there and
\* entered in the manifest.
snapshot(file_path) ==
    IF s_ctx = None \/ file_path \notin DOMAIN disk THEN s_shadow
    ELSE LET r == s_ctx.run
             dir == ShadowDir(r)
         IN  IF file_path \in DOMAIN dir THEN s_shadow
             ELSE [q \in DOMAIN s_shadow \cup {r} |->
                      IF q = r THEN (file_path :> disk[file_path]) @@ dir
                      ELSE s_shadow[q]]

\* What a tool of run r does to file_path: snapshot, then the write.
Edits(r, file_path, contents) ==
    /\ s_runs[r].live
    /\ s_runs[r].edits < MaxEdits
    /\ s_shadow' = snapshot(file_path)
    /\ disk' = (file_path :> contents) @@ disk
    /\ s_runs' = [s_runs EXCEPT
          ![r].edits = @ + 1,
          ![r].first = IF file_path \in DOMAIN @ THEN @
                       ELSE (file_path :>
                               IF file_path \in DOMAIN disk
                               THEN Content(disk[file_path])
                               ELSE None) @@ @]
    /\ UNCHANGED <<s_ctx, shadowFrame>>

\* CrickCoderFileTools.save_file (overwrite=True) in run r.
save_file(r, file_name, contents) ==
    /\ Edits(r, file_name, contents)
    /\ lastOp' = [op |-> "save_file", run |-> r]

\* CrickCoderFileTools.replace_file_chunk in run r: the file exists and the
\* text to replace is found in it.
replace_file_chunk(r, file_name, contents) ==
    /\ file_name \in DOMAIN disk
    /\ contents # disk[file_name]
    /\ Edits(r, file_name, contents)
    /\ lastOp' = [op |-> "replace_file_chunk", run |-> r]

\* ShadowWorkspace.rollback(project_root, session_id, run_id) with no
\* target_files: every file of the run's manifest is copied back; False when
\* the run has none.
rollback(r) ==
    /\ LET dir == ShadowDir(r)
       IN  /\ disk' = dir @@ disk
           /\ lastOp' = [op |-> "rollback", run |-> r,
                         ok |-> DOMAIN dir # {}]
    /\ UNCHANGED <<s_ctx, s_shadow, s_runs, shadowFrame>>

ShadowInit ==
    /\ LockIdle
    /\ FaultIdle /\ LimitIdle /\ EmbIdle /\ OrderIdle
    /\ ShadowIdle
    /\ disk = (PA :> C_small)
    /\ ignorefile = {}
    /\ gitignore = {}
    /\ db = EmptyBag
    /\ table_exists = FALSE
    /\ lastOp = [op |-> "none"]
    /\ h_in = <<>>
    /\ h_pc = "off"
    /\ h_res = None
    /\ now = 0
    /\ events = <<>>
    /\ last_event_time = << >>
    /\ w_rules = [dirs |-> {}, exts |-> {}]
    /\ workers = {}
    /\ log = <<>>

ShadowNext ==
    \/ set_context
    \/ \E r \in DOMAIN s_runs : end_run(r)
    \/ \E r \in DOMAIN s_runs : \E p \in ShadowPaths :
          \E c \in ShadowContents : save_file(r, p, c)
    \/ \E r \in DOMAIN s_runs : \E p \in ShadowPaths :
          \E c \in ShadowContents : replace_file_chunk(r, p, c)
    \/ \E r \in DOMAIN s_runs : rollback(r)

SpecShadow == ShadowInit /\ [][ShadowNext]_vars

\* C40: for the edits of one run to a file that existed, the shadow snapshot
\* of the file is taken once, before the run's first edit of it, and later
\* edits never overwrite it: the run's shadow directory holds what the file
\* held before the run's first edit.  A rollback of the run puts that
\* content back.
C40_SnapshotOncePerRun ==
    /\ \A r \in DOMAIN s_runs : \A p \in DOMAIN s_runs[r].first :
          s_runs[r].first[p] # None =>
              /\ p \in DOMAIN ShadowDir(r)
              /\ Content(ShadowDir(r)[p]) = s_runs[r].first[p]
    /\ lastOp.op = "rollback" =>
          \A p \in DOMAIN s_runs[lastOp.run].first :
              s_runs[lastOp.run].first[p] # None =>
                  /\ p \in DOMAIN disk
                  /\ Content(disk[p]) = s_runs[lastOp.run].first[p]

=============================================================================
